---- MODULE Spec2Model ----
(***************************************************************************)
(* Model of the Riot API access layer of lol-discord-bot:                  *)
(*   class RateLimiter     (riot-api-tester.ts 633-666)                    *)
(*   class RiotApiService  (riot-api-tester.ts 291-628)                    *)
(*                                                                         *)
(* Time is the value of Date.now(), a natural number of clock units.  The  *)
(* code's windows (1000 ms and 120000 ms) are scaled to a few units so     *)
(* that a window can fill, expire and refill inside the explored horizon.  *)
(* JavaScript runs a handler to completion between awaits, so each action  *)
(* is the code between two suspension points.                              *)
(***************************************************************************)
EXTENDS Integers, Sequences, FiniteSets, TLC

\* ---------------------------------------------------------------- bounds
MaxTime == 5          \* horizon of the clock of the stand-alone limiter
MaxLimit == 2         \* largest limit tried for the stand-alone limiter
MaxWindow == 3        \* largest windowMs tried for the stand-alone limiter
MaxOps == 5           \* tryRequest calls on the stand-alone limiter
MaxCalls == 3         \* makeApiCall invocations of one run of the service
BurstWindowMs == 2    \* the 1000 ms window of the 'global' limiter, scaled
AppWindowMs == 3      \* the 120000 ms window of the 'app' limiter, scaled
TtlMs == 2            \* the ttl a caller passes (a config ttl * 1000), scaled

\* horizon of the service's clock: the app window can fill and expire
Horizon == AppWindowMs + 1

NULL == "null"

Range(s) == {s[i] : i \in DOMAIN s}

SetMin(S) == CHOOSE x \in S : \A y \in S : x <= y

MathMax(a, b) == IF a >= b THEN a ELSE b

\* ------------------------------------------------------------ RateLimiter
\* constructor(limit, windowMs): requests = []
RateLimiter(limit, windowMs) ==
    [requests |-> <<>>, limit |-> limit, windowMs |-> windowMs]

KeepsBoundaryAsInWindow(l, now, time) == now - time <= l.windowMs

\* the filter predicate of tryRequest: time => now - time < this.windowMs
InWindow(l, now, time) == now - time < l.windowMs

HasRoomOffByOne(l, kept) == Len(kept) <= l.limit

\* this.requests.length < this.limit
HasRoom(l, kept) == Len(kept) < l.limit

\* tryRequest(): prune, then record now when below the limit
tryRequest(l, now) ==
    LET kept == SelectSeq(l.requests, LAMBDA time : InWindow(l, now, time))
    IN  IF HasRoom(l, kept)
        THEN [limiter |-> [l EXCEPT !.requests = Append(kept, now)], result |-> TRUE]
        ELSE [limiter |-> [l EXCEPT !.requests = kept], result |-> FALSE]

getRetryAfterUnclamped(l, now) ==
    IF Len(l.requests) = 0 THEN 0
    ELSE l.windowMs - (now - SetMin(Range(l.requests)))

getRetryAfterElapsed(l, now) ==
    IF Len(l.requests) = 0 THEN 0
    ELSE MathMax(0, now - SetMin(Range(l.requests)))

\* getRetryAfter(): windowMs - (Date.now() - oldest), clamped at 0
getRetryAfter(l, now) ==
    IF Len(l.requests) = 0 THEN 0
    ELSE MathMax(0, l.windowMs - (now - SetMin(Range(l.requests))))

\* --------------------------------------------------------- RiotApiService
Callers == {"c1", "c2"}          \* logical requests in flight at once

Keys == {"league:na1:s1"}         \* cache keys the callers pass

\* the url the callers pass
Urls == {"https://na1.api.riotgames.com/lol/league/v4/entries/by-summoner/s1"}

NoKey == "undefined"              \* makeApiCall called without a cacheKey

Bodies == {"entries", "emptyList"}   \* decoded 2xx bodies (objects, arrays)

Statuses == {200, 404, 429}       \* response statuses the transport returns

\* Config.riotApi.rateLimits.personalKey: <<perSecond, per2Minutes>>
Quotas == {<<1, 1>>, <<1, 2>>, <<2, 2>>}

RetryAfterHeaders == {NULL, "1"}  \* the retry-after header of a response

TruthyOnlyNonEmpty(v) == v # NULL /\ v # "emptyList"

\* if (cached): null is the only falsy value getFromCache can hand back
\* for a body that is an object or an array; an empty array is truthy
Truthy(v) == v # NULL

\* this.cache.delete(key)
cacheDelete(c, key) == [k \in DOMAIN c \ {key} |-> c[k]]

getFromCacheExpiresAtDeadline(c, key, now) ==
    IF key \notin DOMAIN c THEN [cache |-> c, value |-> NULL]
    ELSE IF now >= c[key].timestamp + c[key].ttl
         THEN [cache |-> cacheDelete(c, key), value |-> NULL]
         ELSE [cache |-> c, value |-> c[key].data]

getFromCacheKeepsExpired(c, key, now) ==
    IF key \notin DOMAIN c THEN [cache |-> c, value |-> NULL]
    ELSE IF now > c[key].timestamp + c[key].ttl
         THEN [cache |-> c, value |-> NULL]
         ELSE [cache |-> c, value |-> c[key].data]

\* getFromCache(key): the value of a live entry; an expired one is deleted
getFromCache(c, key, now) ==
    IF key \notin DOMAIN c THEN [cache |-> c, value |-> NULL]
    ELSE IF now > c[key].timestamp + c[key].ttl
         THEN [cache |-> cacheDelete(c, key), value |-> NULL]
         ELSE [cache |-> c, value |-> c[key].data]

setCacheKeepsFirst(c, key, data, ttl, now) ==
    [k \in DOMAIN c \cup {key} |->
        IF k \in DOMAIN c THEN c[k] ELSE [data |-> data, timestamp |-> now, ttl |-> ttl]]

\* setCache(key, data, ttl)
setCache(c, key, data, ttl, now) ==
    [k \in DOMAIN c \cup {key} |->
        IF k = key THEN [data |-> data, timestamp |-> now, ttl |-> ttl] ELSE c[k]]

\* getCacheStats(): the keys are kept as a set
getCacheStats(c) == [size |-> Cardinality(DOMAIN c), keys |-> DOMAIN c]

\* ------------------------------------------------------------ cache keys
\* `summoner:puuid:${puuid}` (530)
summonerCacheKey(puuid) == "summoner:puuid:" \o puuid

\* `account:${region}:${gameName}:${tagLine}` (543)
accountCacheKey(region, gameName, tagLine) ==
    "account:" \o region \o ":" \o gameName \o ":" \o tagLine

\* `league:${region}:${summonerId}` (554)
leagueCacheKey(region, summonerId) == "league:" \o region \o ":" \o summonerId

\* `mastery:${region}:${puuid}` (565)
masteryCacheKey(region, puuid) == "mastery:" \o region \o ":" \o puuid

\* `mastery:${region}:${puuid}:${championId}` (576)
masteryByChampionCacheKey(region, puuid, championId) ==
    "mastery:" \o region \o ":" \o puuid \o ":" \o ToString(championId)

\* `matches:${region}:${puuid}:${start}:${count}:${queue || 'all'}` (595);
\* an absent queue is 0 here, which is falsy as well
matchesCacheKey(region, puuid, start, count, queue) ==
    "matches:" \o region \o ":" \o puuid \o ":" \o ToString(start) \o ":"
        \o ToString(count) \o ":" \o (IF queue # 0 THEN ToString(queue) ELSE "all")

\* `match:${matchId}` (606)
matchCacheKey(matchId) == "match:" \o matchId

\* ------------------------------------------------------- JavaScript values
StartsWith(s, prefix) == Len(s) >= Len(prefix) /\ SubSeq(s, 1, Len(prefix)) = prefix

EndsWith(s, suffix) ==
    Len(s) >= Len(suffix) /\ SubSeq(s, Len(s) - Len(suffix) + 1, Len(s)) = suffix

\* a JavaScript number: an integer, or NaN
Num(n) == [nan |-> FALSE, n |-> n]

NaN == [nan |-> TRUE, n |-> 0]

\* a * b on JavaScript numbers: NaN is contagious
NumTimes(a, b) == IF a.nan \/ b.nan THEN NaN ELSE Num(a.n * b.n)

\* the character at position i of a string ("" past its end)
CharAt(s, i) == IF i >= 1 /\ i <= Len(s) THEN SubSeq(s, i, i) ELSE ""

LowerDigits == "0123456789abcdef"

UpperDigits == "0123456789ABCDEF"

\* the value of ch as a digit of the radix, -1 when it is none
DigitValue(ch, radix) ==
    LET hits == {d \in 0..(radix - 1) :
                    ch # "" /\ (CharAt(LowerDigits, d + 1) = ch \/ CharAt(UpperDigits, d + 1) = ch)}
    IN  IF hits = {} THEN -1 ELSE CHOOSE d \in hits : TRUE

RECURSIVE SkipWhiteSpace(_, _)
\* the first position from i on that holds no white space
SkipWhiteSpace(s, i) ==
    IF CharAt(s, i) = " " THEN SkipWhiteSpace(s, i + 1) ELSE i

RECURSIVE ParseDigits(_, _, _, _, _)
\* the longest run of digits from position i on: [any, value]
ParseDigits(s, i, radix, acc, any) ==
    LET d == DigitValue(CharAt(s, i), radix)
    IN  IF d < 0 THEN [any |-> any, value |-> acc]
        ELSE ParseDigits(s, i + 1, radix, acc * radix + d, TRUE)

\* parseInt(string): leading white space, an optional sign, an optional 0x,
\* then the longest run of digits; NaN when there is no digit
parseInt(s) ==
    LET i0 == SkipWhiteSpace(s, 1)
        sign == IF CharAt(s, i0) = "-" THEN -1 ELSE 1
        i1 == IF CharAt(s, i0) \in {"-", "+"} THEN i0 + 1 ELSE i0
        hex == CharAt(s, i1) = "0" /\ CharAt(s, i1 + 1) \in {"x", "X"}
        z == IF hex THEN ParseDigits(s, i1 + 2, 16, 0, FALSE)
             ELSE ParseDigits(s, i1, 10, 0, FALSE)
    IN  IF z.any THEN Num(sign * z.value) ELSE NaN

\* setTimeout(resolve, ms): a delay that is NaN or below 1 ms is run as a
\* delay of 1 ms, which is no full unit of the model's clock
setTimeoutDelay(ms) == IF ms.nan \/ ms.n < 1 THEN 0 ELSE ms.n

\* -------------------------------------------------------- handleApiError
\* 1000 ms on the model's clock
OneSecondMs == BurstWindowMs

\* response.ok
ok(response) == response.status >= 200 /\ response.status <= 299

\* a string condition: null and "" are falsy
TruthyString(v) == v # NULL /\ v # ""

\* the body of an error response, as response.json() and the reads of
\* errorBody.status?.message treat it
UnparseableBody == [parses |-> FALSE, isNull |-> FALSE, hasStatus |-> FALSE, message |-> ""]

JsonNullBody == [parses |-> TRUE, isNull |-> TRUE, hasStatus |-> FALSE, message |-> ""]

EmptyObjectBody == [parses |-> TRUE, isNull |-> FALSE, hasStatus |-> FALSE, message |-> ""]

StatusBody(message) == [parses |-> TRUE, isNull |-> FALSE, hasStatus |-> TRUE, message |-> message]

\* a response as handleApiError reads it
Response(status, statusText, retryAfter, body) ==
    [status |-> status, statusText |-> statusText, retryAfter |-> retryAfter, body |-> body]

\* handleApiError 389-398: the message of the body's status when there is
\* one, else the generic one; a body that does not parse, or null, is caught
errorMessage(response) ==
    LET b == response.body
    IN  IF b.parses /\ ~b.isNull /\ b.hasStatus /\ TruthyString(b.message)
        THEN b.message
        ELSE "HTTP " \o ToString(response.status) \o ": " \o response.statusText

\* handleApiError, case 429: retryAfter ? parseInt(retryAfter) * 1000 : 1000
waitTime429(retryAfter) ==
    IF TruthyString(retryAfter) THEN NumTimes(parseInt(retryAfter), Num(OneSecondMs))
    ELSE Num(OneSecondMs)

errorOfTreats503AsUnknown(status, message) ==
    CASE status = 400 -> "Bad Request: " \o message
      [] status = 401 -> "Unauthorized: Invalid API key"
      [] status = 403 -> "Forbidden: API key may be expired or lacking permissions"
      [] status = 404 -> "Not Found: Summoner or data not found"
      [] status = 415 -> "Unsupported Media Type"
      [] status = 429 -> "Rate limited by Riot API"
      [] status = 500 -> "Internal Server Error: Riot API is experiencing issues"
      [] status = 502 -> "Bad Gateway: Riot API is temporarily unavailable"
      [] OTHER -> "API Error " \o ToString(status) \o ": " \o message

\* handleApiError 400-426: the message of the Error thrown for a status
errorOf(status, message) ==
    CASE status = 400 -> "Bad Request: " \o message
      [] status = 401 -> "Unauthorized: Invalid API key"
      [] status = 403 -> "Forbidden: API key may be expired or lacking permissions"
      [] status = 404 -> "Not Found: Summoner or data not found"
      [] status = 415 -> "Unsupported Media Type"
      [] status = 429 -> "Rate limited by Riot API"
      [] status = 500 -> "Internal Server Error: Riot API is experiencing issues"
      [] status = 502 -> "Bad Gateway: Riot API is temporarily unavailable"
      [] status = 503 -> "Service Unavailable: Riot API is under maintenance"
      [] OTHER -> "API Error " \o ToString(status) \o ": " \o message

handleApiErrorParseFailureEscapes(response) ==
    IF ~response.body.parses
    THEN [completion |-> "throw", message |-> "SyntaxError: Unexpected token in JSON",
          sleeps |-> <<>>]
    ELSE [completion |-> "throw",
          message |-> errorOf(response.status, errorMessage(response)),
          sleeps |-> IF response.status = 429
                     THEN <<waitTime429(response.retryAfter)>> ELSE <<>>]

\* handleApiError(response): how it completes, the Error it throws and the
\* sleeps it makes before throwing
handleApiError(response) ==
    [completion |-> "throw",
     message |-> errorOf(response.status, errorMessage(response)),
     sleeps |-> IF response.status = 429
                THEN <<waitTime429(response.retryAfter)>> ELSE <<>>]

RECURSIVE indexOf(_, _, _)
\* String.prototype.indexOf(sub, from), positions counted from 1; 0 when
\* sub does not occur
indexOf(s, sub, from) ==
    IF from + Len(sub) - 1 > Len(s) THEN 0
    ELSE IF SubSeq(s, from, from + Len(sub) - 1) = sub THEN from
    ELSE indexOf(s, sub, from + 1)

\* String.prototype.includes(sub)
includes(s, sub) == indexOf(s, sub, 1) # 0

RECURSIVE split(_, _)
\* String.prototype.split(sep) for a separator of one character
split(s, sep) ==
    LET i == indexOf(s, sep, 1)
    IN  IF i = 0 THEN <<s>>
        ELSE <<SubSeq(s, 1, i - 1)>> \o split(SubSeq(s, i + 1, Len(s)), sep)

RECURSIVE trim(_)
\* String.prototype.trim()
trim(s) ==
    IF CharAt(s, 1) = " " THEN trim(SubSeq(s, 2, Len(s)))
    ELSE IF s # "" /\ CharAt(s, Len(s)) = " " THEN trim(SubSeq(s, 1, Len(s) - 1))
    ELSE s

RECURSIVE encodeURIComponent(_)
\* encodeURIComponent(s): letters, digits and - _ . ! ~ * ' ( ) are kept,
\* every other character is written as its percent escape
encodeURIComponent(s) ==
    LET ch == CharAt(s, 1)
        escaped == CASE ch = " " -> "%20"
                     [] ch = "#" -> "%23"
                     [] ch = "%" -> "%25"
                     [] ch = "&" -> "%26"
                     [] ch = "/" -> "%2F"
                     [] ch = ":" -> "%3A"
                     [] ch = "?" -> "%3F"
                     [] OTHER -> ch
    IN  IF s = "" THEN "" ELSE escaped \o encodeURIComponent(SubSeq(s, 2, Len(s)))

\* -------------------------------------------------------- region directory
\* Object.keys(REGIONS): the codes of the table, in the order they are written
RegionCodes ==
    <<"na1", "euw1", "eune1", "kr", "jp1", "br1", "la1", "la2",
      "oc1", "tr1", "ru", "ph2", "sg2", "th2", "tw2", "vn2">>

\* a RegionConfig
RegionConfig(platform, region, continent) ==
    [platform |-> platform, region |-> region, continent |-> continent]

\* the own properties of the object literal REGIONS
REGIONS ==
    [code \in Range(RegionCodes) |->
        RegionConfig(code, code,
            CASE code \in {"na1", "br1", "la1", "la2"} -> "americas"
              [] code \in {"euw1", "eune1", "tr1", "ru"} -> "europe"
              [] code \in {"kr", "jp1"} -> "asia"
              [] OTHER -> "sea")]

\* what a template string or a property read makes of a missing value
UNDEFINED == "undefined"

\* the properties an object literal inherits from Object.prototype: a
\* function or an object, which has none of the fields of a RegionConfig
ObjectPrototypeKeys ==
    {"constructor", "__proto__", "toString", "toLocaleString", "valueOf",
     "hasOwnProperty", "isPrototypeOf", "propertyIsEnumerable",
     "__defineGetter__", "__defineSetter__", "__lookupGetter__", "__lookupSetter__"}

\* Object.prototype.hasOwnProperty.call(obj, key)
hasOwnProperty(obj, key) == key \in DOMAIN obj

\* obj[key]: an own property, else one inherited from Object.prototype, else
\* undefined
PropertyGet(obj, key) ==
    IF hasOwnProperty(obj, key) THEN [defined |-> TRUE, value |-> obj[key]]
    ELSE IF key \in ObjectPrototypeKeys
         THEN [defined |-> TRUE, value |-> RegionConfig(UNDEFINED, UNDEFINED, UNDEFINED)]
         ELSE [defined |-> FALSE, value |-> RegionConfig(UNDEFINED, UNDEFINED, UNDEFINED)]

\* the lower-case form of one character
LowerChar(ch) ==
    LET upper == "ABCDEFGHIJKLMNOPQRSTUVWXYZ"
        lower == "abcdefghijklmnopqrstuvwxyz"
        hits == {i \in 1..Len(upper) : CharAt(upper, i) = ch}
    IN  IF hits = {} THEN ch ELSE CharAt(lower, CHOOSE i \in hits : TRUE)

RECURSIVE toLowerCase(_)
\* String.prototype.toLowerCase()
toLowerCase(s) ==
    IF s = "" THEN "" ELSE LowerChar(CharAt(s, 1)) \o toLowerCase(SubSeq(s, 2, Len(s)))

RECURSIVE Join(_, _)
\* Array.prototype.join(sep)
Join(seq, sep) ==
    IF Len(seq) = 0 THEN ""
    ELSE IF Len(seq) = 1 THEN seq[1]
    ELSE seq[1] \o sep \o Join(Tail(seq), sep)

\* getRegionConfig(region): REGIONS[region.toLowerCase()], an Error when
\* that is falsy
getRegionConfig(region) ==
    LET regionConfig == PropertyGet(REGIONS, toLowerCase(region))
    IN  IF ~regionConfig.defined
        THEN [completion |-> "throw",
              message |-> "Invalid region: " \o region \o ". Supported regions: "
                              \o Join(RegionCodes, ", "),
              value |-> regionConfig.value]
        ELSE [completion |-> "return", message |-> "", value |-> regionConfig.value]

\* ------------------------------------------------------------------ state
VARIABLES
    rl,        \* a stand-alone RateLimiter: [requests, limit, windowMs]
    rlNow,     \* Date.now() seen by the stand-alone limiter
    rlLast,    \* the last call on it: [op, now, before, after, ret]
    rlCalls,   \* the tryRequest calls made so far, in order: [now, ret]
    dateNow,       \* Date.now() of the service
    cacheEnabled,  \* Config.riotApi.cache.enabled
    cache,         \* this.cache: a map key -> [data, timestamp, ttl]
    rateLimiters,  \* this.rateLimiters: 'global' and 'app'
    pc,            \* where each caller's makeApiCall is suspended
    req,           \* the arguments of each caller's makeApiCall
    wake,          \* the due time of the timer a sleeping caller waits on
    out,           \* what makeApiCall returned or threw to each caller
    calls,         \* makeApiCall invocations so far
    issued,        \* times of the transport calls of the last app window
    admits,        \* per limiter, times tryRequest returned true, last window
    admitted,      \* per caller, the limiters that admitted this call
    entry,         \* per caller, the delays seen on reaching rate limiting
    issuedAt,      \* per caller, when this call issued its transport call
    response,      \* the response handed to a stand-alone handleApiError
    thrown,        \* how that handleApiError completed
    cacheLog,      \* the last two operations on a stand-alone cache
    keyOps,        \* two fetch operations with their arguments
    builtKeys,     \* the cache keys those two operations build
    gwCall,        \* the gateway call in progress, as its caller observes it
    gwDone,        \* the last gateway call that completed
    regionArg,     \* the string handed to a stand-alone getRegionConfig
    regionRes,     \* how that getRegionConfig completed
    resolver,      \* the observed call of a public method: its locals, what it did
    eq             \* two calls of getSummonerByName compared from one starting state

rlVars == <<rl, rlNow, rlLast, rlCalls>>

svcVars == <<dateNow, cacheEnabled, cache, rateLimiters, pc, req, wake, out, calls,
             issued, admits, admitted, entry, issuedAt>>

resVars == <<regionArg, regionRes, resolver, eq>>

auxVars == <<response, thrown, cacheLog, keyOps, builtKeys, gwCall, gwDone, resVars>>

vars == <<rl, rlNow, rlLast, rlCalls, dateNow, cacheEnabled, cache, rateLimiters,
          pc, req, wake, out, calls, issued, admits, admitted, entry, issuedAt,
          response, thrown, cacheLog, keyOps, builtKeys, gwCall, gwDone,
          regionArg, regionRes, resolver, eq>>

NoReq == [url |-> "", cacheKey |-> NoKey, ttl |-> 0]

NoOut == [kind |-> "none", value |-> NULL, src |-> "none"]

\* the call did not reach rate limiting with both windows full
NoEntry == [full |-> FALSE, t |-> 0, dB |-> 0, dS |-> 0, alone |-> TRUE]

\* no transport call issued by this call
Never == -1

\* handleApiError has not been called
NoResponse == Response(0, "", NULL, UnparseableBody)

NoThrown == [completion |-> "none", message |-> "", sleeps |-> <<>>]

\* no fetch operation chosen, no key built
NoKeyOps == <<>>

\* no gateway call in progress: what a call's record holds before the
\* call has got anywhere
NoCall ==
    [op |-> "none", key |-> NoKey, ttl |-> 0, enabled |-> FALSE,
     requests |-> <<>>, status |-> 0,
     hint |-> <<>>, respAt |-> Never, waited |-> 0, timers |-> 0, effects |-> {},
     respEffects |-> {}, warm |-> NULL, prevRequests |-> 0, end |-> Never,
     kind |-> "none", value |-> NULL, src |-> "none"]

\* getRegionConfig has not been called
NoRegionRes ==
    [completion |-> "none", message |-> "",
     value |-> RegionConfig(UNDEFINED, UNDEFINED, UNDEFINED)]

\* one fetch operation with its arguments; the arguments it does not take
\* are "" or 0, as are the type, startTime and endTime that the caller of
\* getMatchIdsByPuuid leaves out
KeyOp(kind, region, id, id2, championId, queue) ==
    [kind |-> kind, region |-> region, id |-> id, id2 |-> id2,
     championId |-> championId, start |-> 0, count |-> 20, queue |-> queue,
     type |-> "", startTime |-> 0, endTime |-> 0]

\* no operation, as ResObserve takes it when no call is made in the step
NoKeyOp == KeyOp("none", "", "", "", 0, 0)

\* no public method has been called: the arguments and the locals of
\* getSummonerByName, where it is suspended, and what it has done so far
NoLookup ==
    [op |-> "none", summonerName |-> "", region |-> "", explicit |-> TRUE,
     defaultTagLines |-> <<>>, i |-> 0, step |-> "none", consulted |-> FALSE,
     attempts |-> <<>>, result |-> [kind |-> "none", value |-> NULL]]

\* no comparison has begun: the phase, the fetches that warmed the service
\* up, the bare name and the region, the state both calls start from, and
\* what the first call returned and handed to the transport
NoEq ==
    [phase |-> "warm", warmed |-> {}, warming |-> "none", n |-> "", region |-> "",
     start |-> [dateNow |-> 0, cache |-> <<>>, rateLimiters |-> <<>>],
     first |-> [result |-> [kind |-> "none", value |-> NULL], sent |-> <<>>]]

\* a RiotApiService after constructor() and initializeRateLimiters(); the
\* stand-alone limiter is not exercised
Init ==
    /\ dateNow = 0
    /\ cacheEnabled \in BOOLEAN
    /\ cache = <<>>
    /\ \E limits \in Quotas :
          rateLimiters = [global |-> RateLimiter(limits[1], BurstWindowMs),
                          app |-> RateLimiter(limits[2], AppWindowMs)]
    /\ pc = [c \in Callers |-> "idle"]
    /\ req = [c \in Callers |-> NoReq]
    /\ wake = [c \in Callers |-> 0]
    /\ out = [c \in Callers |-> NoOut]
    /\ calls = 0
    /\ issued = <<>>
    /\ admits = [global |-> <<>>, app |-> <<>>]
    /\ admitted = [c \in Callers |-> {}]
    /\ entry = [c \in Callers |-> NoEntry]
    /\ issuedAt = [c \in Callers |-> Never]
    /\ rl = RateLimiter(1, 1)
    /\ rlNow = 0
    /\ rlLast = [op |-> "new", now |-> 0, before |-> <<>>, after |-> <<>>, ret |-> 0]
    /\ rlCalls = <<>>
    /\ response = NoResponse
    /\ thrown = NoThrown
    /\ cacheLog = <<>>
    /\ keyOps = NoKeyOps
    /\ builtKeys = <<>>
    /\ gwCall = NoCall
    /\ gwDone = NoCall
    /\ eq = NoEq
    /\ resolver = NoLookup
    /\ regionRes = NoRegionRes
    /\ regionArg = NULL

\* ------------------------------------------- stand-alone limiter machine
\* new RateLimiter(q, w) for every small q and w; the service is not
\* exercised
RLInit ==
    /\ \E q \in 1..MaxLimit, w \in 1..MaxWindow : rl = RateLimiter(q, w)
    /\ rlNow = 0
    /\ rlLast = [op |-> "new", now |-> 0, before |-> <<>>, after |-> <<>>, ret |-> 0]
    /\ rlCalls = <<>>
    /\ dateNow = 0
    /\ cacheEnabled = TRUE
    /\ cache = <<>>
    /\ rateLimiters = [global |-> RateLimiter(1, BurstWindowMs),
                       app |-> RateLimiter(1, AppWindowMs)]
    /\ pc = [c \in Callers |-> "idle"]
    /\ req = [c \in Callers |-> NoReq]
    /\ wake = [c \in Callers |-> 0]
    /\ out = [c \in Callers |-> NoOut]
    /\ calls = 0
    /\ issued = <<>>
    /\ admits = [global |-> <<>>, app |-> <<>>]
    /\ admitted = [c \in Callers |-> {}]
    /\ entry = [c \in Callers |-> NoEntry]
    /\ issuedAt = [c \in Callers |-> Never]
    /\ response = NoResponse
    /\ thrown = NoThrown
    /\ cacheLog = <<>>
    /\ keyOps = NoKeyOps
    /\ builtKeys = <<>>
    /\ gwCall = NoCall
    /\ gwDone = NoCall
    /\ eq = NoEq
    /\ resolver = NoLookup
    /\ regionRes = NoRegionRes
    /\ regionArg = NULL

RLTryRequest ==
    /\ Len(rlCalls) < MaxOps
    /\ LET r == tryRequest(rl, rlNow)
       IN  /\ rl' = r.limiter
           /\ rlLast' = [op |-> "tryRequest", now |-> rlNow, before |-> rl.requests,
                         after |-> r.limiter.requests, ret |-> r.result]
           /\ rlCalls' = Append(rlCalls, [now |-> rlNow, ret |-> r.result])
    /\ UNCHANGED <<rlNow, svcVars, auxVars>>

RLGetRetryAfter ==
    /\ rlLast.op # "getRetryAfter" \/ rlLast.now # rlNow
    /\ rlLast' = [op |-> "getRetryAfter", now |-> rlNow, before |-> rl.requests,
                  after |-> rl.requests, ret |-> getRetryAfter(rl, rlNow)]
    /\ UNCHANGED <<rl, rlNow, rlCalls, svcVars, auxVars>>

RLTick ==
    /\ rlNow < MaxTime
    /\ rlNow' = rlNow + 1
    /\ UNCHANGED <<rl, rlLast, rlCalls, svcVars, auxVars>>

RLNext == RLTryRequest \/ RLGetRetryAfter \/ RLTick

SpecRL == RLInit /\ [][RLNext]_vars

\* ------------------------------------------------------- service machine
Done == {"idle", "returned", "failed"}

Sleeping == {"sleepGlobal", "sleepApp", "sleep429"}

\* a log of event times, kept for one window w
Remember(log, t, w) == Append(SelectSeq(log, LAMBDA x : x > t - w), t)

\* the timestamps of limiter l that are younger than its window at time t
Fresh(l, t) == {x \in Range(l.requests) : t - x < l.windowMs}

\* limiter l has no room at time t
FullAt(l, t) == Cardinality({i \in DOMAIN l.requests : t - l.requests[i] < l.windowMs}) >= l.limit

\* the time left at t until the oldest timestamp of a full limiter l ages out
DelayAt(l, t) == l.windowMs - (t - SetMin(Fresh(l, t)))

\* what a call sees on reaching rate limiting when both windows are full
EntryDelays(rls, t) ==
    IF FullAt(rls.global, t) /\ FullAt(rls.app, t)
    THEN [full |-> TRUE, t |-> t, dB |-> DelayAt(rls.global, t),
          dS |-> DelayAt(rls.app, t), alone |-> TRUE]
    ELSE NoEntry

\* an admission by caller c ends the solitude of the callers that wait
Disturb(e, c, anyAdmit) ==
    [d \in Callers |->
        IF d # c /\ anyAdmit /\ e[d].full /\ pc[d] \in {"sleepGlobal", "sleepApp"}
        THEN [e[d] EXCEPT !.alone = FALSE] ELSE e[d]]

\* new URL(url) (347): a string with no scheme is no URL, a TypeError
ValidUrl(url) == StartsWith(url, "https://")

\* 345-351 and 365-368 once applyRateLimit has returned, for the request r
\* of caller c: new URL(url) throws, which is caught, logged and rethrown,
\* or the transport call is issued
Transport(c, r) ==
    IF ValidUrl(r.url)
    THEN /\ pc' = [pc EXCEPT ![c] = "inflight"]
         /\ issued' = Remember(issued, dateNow, AppWindowMs)
         /\ issuedAt' = [issuedAt EXCEPT ![c] = dateNow]
         /\ wake' = [wake EXCEPT ![c] = 0]
         /\ out' = [out EXCEPT ![c] = NoOut]
         /\ req' = [req EXCEPT ![c] = r]
    ELSE /\ pc' = [pc EXCEPT ![c] = "failed"]
         /\ issued' = issued
         /\ issuedAt' = [issuedAt EXCEPT ![c] = Never]
         /\ wake' = [wake EXCEPT ![c] = 0]
         /\ out' = [out EXCEPT ![c] = [kind |-> "error", value |-> "Invalid URL",
                                       src |-> "url"]]
         /\ req' = [req EXCEPT ![c] = NoReq]

\* applyRateLimit, second half (381-385), then the transport call (346-351)
\* when that half does not sleep.  rls: the limiters after the first half;
\* admG: the global limiter admitted this call in this very step; r: the
\* arguments of the call.
applyRateLimitApp(c, rls, admBase, entryBase, admG, r) ==
    LET a == tryRequest(rls.app, dateNow)
        thrown347 == a.result /\ ~ValidUrl(r.url)
    IN  /\ rateLimiters' = [rls EXCEPT !.app = a.limiter]
        /\ admits' = [global |-> IF admG
                                 THEN Remember(admits.global, dateNow, BurstWindowMs)
                                 ELSE admits.global,
                      app |-> IF a.result
                              THEN Remember(admits.app, dateNow, AppWindowMs)
                              ELSE admits.app]
        /\ admitted' = [admitted EXCEPT ![c] =
                           IF thrown347 THEN {}
                           ELSE admBase \cup (IF admG THEN {"global"} ELSE {})
                                        \cup (IF a.result THEN {"app"} ELSE {})]
        /\ entry' = IF thrown347 THEN [entryBase EXCEPT ![c] = NoEntry]
                    ELSE Disturb(entryBase, c, admG \/ a.result)
        /\ IF a.result
           THEN Transport(c, r)
           ELSE /\ pc' = [pc EXCEPT ![c] = "sleepApp"]
                /\ wake' = [wake EXCEPT ![c] = dateNow + getRetryAfter(a.limiter, dateNow)]
                /\ issued' = issued
                /\ issuedAt' = [issuedAt EXCEPT ![c] = Never]
                /\ out' = [out EXCEPT ![c] = NoOut]
                /\ req' = [req EXCEPT ![c] = r]

\* applyRateLimit, first half (375-379), continuing into the second half
\* when the global limiter admits
applyRateLimit(c, r) ==
    LET g == tryRequest(rateLimiters.global, dateNow)
        entryBase == [entry EXCEPT ![c] = EntryDelays(rateLimiters, dateNow)]
    IN  IF g.result
        THEN applyRateLimitApp(c, [rateLimiters EXCEPT !.global = g.limiter],
                               {}, entryBase, TRUE, r)
        ELSE /\ rateLimiters' = [rateLimiters EXCEPT !.global = g.limiter]
             /\ pc' = [pc EXCEPT ![c] = "sleepGlobal"]
             /\ wake' = [wake EXCEPT ![c] = dateNow + getRetryAfter(g.limiter, dateNow)]
             /\ admitted' = [admitted EXCEPT ![c] = {}]
             /\ entry' = entryBase
             /\ issuedAt' = [issuedAt EXCEPT ![c] = Never]
             /\ out' = [out EXCEPT ![c] = NoOut]
             /\ req' = [req EXCEPT ![c] = r]
             /\ UNCHANGED <<issued, admits>>

\* makeApiCall(url, cacheKey, ttl) up to its first suspension: the cache
\* lookup (334-340) and the synchronous start of applyRateLimit (343); at
\* most maxCalls invocations are explored
makeApiCallUpTo(maxCalls, c, url, cacheKey, ttl) ==
    /\ pc[c] \in Done
    /\ calls < maxCalls
    /\ calls' = calls + 1
    /\ LET lookup == cacheKey # NoKey /\ cacheEnabled
           got == IF lookup THEN getFromCache(cache, cacheKey, dateNow)
                  ELSE [cache |-> cache, value |-> NULL]
       IN  /\ cache' = got.cache
           /\ IF lookup /\ Truthy(got.value)
              THEN /\ pc' = [pc EXCEPT ![c] = "returned"]
                   /\ out' = [out EXCEPT ![c] = [kind |-> "value", value |-> got.value,
                                                 src |-> "cache"]]
                   /\ admitted' = [admitted EXCEPT ![c] = {}]
                   /\ entry' = [entry EXCEPT ![c] = NoEntry]
                   /\ issuedAt' = [issuedAt EXCEPT ![c] = Never]
                   /\ req' = [req EXCEPT ![c] = NoReq]
                   /\ UNCHANGED <<rateLimiters, wake, issued, admits>>
              ELSE applyRateLimit(c, [url |-> url, cacheKey |-> cacheKey, ttl |-> ttl])
    /\ UNCHANGED <<dateNow, cacheEnabled, rlVars>>

makeApiCall(c, url, cacheKey, ttl) == makeApiCallUpTo(MaxCalls, c, url, cacheKey, ttl)

\* buildUrl(region, endpoint, isRegionalEndpoint): the platform's host, or
\* the base URL Config.riotApi.baseUrls holds for the continent, which is
\* undefined for a continent it does not name
buildUrl(region, endpoint, isRegionalEndpoint) ==
    LET regionConfig == getRegionConfig(region)
        continentUrl == IF regionConfig.value.continent = UNDEFINED THEN UNDEFINED
                        ELSE "https://" \o regionConfig.value.continent \o ".api.riotgames.com"
    IN  IF regionConfig.completion = "throw" THEN regionConfig
        ELSE [completion |-> "return", message |-> "",
              value |-> IF isRegionalEndpoint
                        THEN "https://" \o regionConfig.value.platform
                                 \o ".api.riotgames.com" \o endpoint
                        ELSE continentUrl \o endpoint]

\* a public method throws before it reaches makeApiCall
ThrowEarly(c, message) ==
    /\ pc[c] \in Done
    /\ pc' = [pc EXCEPT ![c] = "failed"]
    /\ out' = [out EXCEPT ![c] = [kind |-> "error", value |-> message, src |-> "none"]]
    /\ UNCHANGED <<dateNow, cacheEnabled, cache, rateLimiters, req, wake, calls, issued,
                   admits, admitted, entry, issuedAt, rlVars>>

\* a public fetch method: buildUrl, then makeApiCall with the cacheKey and
\* the ttl of its resource kind
Fetch(maxCalls, c, region, endpoint, isRegionalEndpoint, cacheKey, ttl) ==
    LET url == buildUrl(region, endpoint, isRegionalEndpoint)
    IN  IF url.completion = "throw" THEN ThrowEarly(c, url.message)
        ELSE makeApiCallUpTo(maxCalls, c, url.value, cacheKey, ttl)

\* the cacheKey the operation hands to makeApiCall
cacheKeyOf(o) ==
    CASE o.kind = "getAccountByRiotId" -> accountCacheKey(o.region, o.id, o.id2)
      [] o.kind = "getSummonerByPuuid" -> summonerCacheKey(o.id)
      [] o.kind = "getLeagueEntriesBySummonerId" -> leagueCacheKey(o.region, o.id)
      [] o.kind = "getChampionMasteryByPuuid" -> masteryCacheKey(o.region, o.id)
      [] o.kind = "getChampionMasteryByChampion" ->
            masteryByChampionCacheKey(o.region, o.id, o.championId)
      [] o.kind = "getMatchIdsByPuuid" ->
            matchesCacheKey(o.region, o.id, o.start, o.count, o.queue)
      [] o.kind = "getMatchById" -> matchCacheKey(o.id)

isValidRegionWithInherited(region) == PropertyGet(REGIONS, toLowerCase(region)).defined

\* RiotApiUtils.isValidRegion(region)
isValidRegion(region) == hasOwnProperty(REGIONS, toLowerCase(region))

\* ------------------------------------------------- the public fetch methods
\* the endpoint the operation o hands to buildUrl (528, 541, 552, 563, 574,
\* 587-592, 604)
endpointOf(o) ==
    CASE o.kind = "getAccountByRiotId" ->
            "/riot/account/v1/accounts/by-riot-id/" \o encodeURIComponent(o.id)
                \o "/" \o encodeURIComponent(o.id2)
      [] o.kind = "getSummonerByPuuid" -> "/lol/summoner/v4/summoners/by-puuid/" \o o.id
      [] o.kind = "getLeagueEntriesBySummonerId" ->
            "/lol/league/v4/entries/by-summoner/" \o o.id
      [] o.kind = "getChampionMasteryByPuuid" ->
            "/lol/champion-mastery/v4/champion-masteries/by-puuid/" \o o.id
      [] o.kind = "getChampionMasteryByChampion" ->
            "/lol/champion-mastery/v4/champion-masteries/by-puuid/" \o o.id
                \o "/by-champion/" \o ToString(o.championId)
      [] o.kind = "getMatchIdsByPuuid" ->
            "/lol/match/v5/matches/by-puuid/" \o o.id \o "/ids?start=" \o ToString(o.start)
                \o "&count=" \o ToString(o.count)
                \o (IF o.queue # 0 THEN "&queue=" \o ToString(o.queue) ELSE "")
                \o (IF o.type # "" THEN "&type=" \o o.type ELSE "")
                \o (IF o.startTime # 0 THEN "&startTime=" \o ToString(o.startTime) ELSE "")
                \o (IF o.endTime # 0 THEN "&endTime=" \o ToString(o.endTime) ELSE "")
      [] o.kind = "getMatchById" -> "/lol/match/v5/matches/" \o o.id

\* the isRegionalEndpoint the operation hands to buildUrl: false for the
\* continental endpoints (542, 594, 605)
isRegionalEndpointOf(o) ==
    o.kind \notin {"getAccountByRiotId", "getMatchIdsByPuuid", "getMatchById"}

\* the url the operation hands to makeApiCall, or the Error of buildUrl
urlOf(o) == buildUrl(o.region, endpointOf(o), isRegionalEndpointOf(o))

\* one of the seven fetch methods that make a single makeApiCall, with the
\* ttl of its resource kind set to ttlSeconds in Config.riotApi.cache
fetch(maxCalls, c, o, ttlSeconds) ==
    Fetch(maxCalls, c, o.region, endpointOf(o), isRegionalEndpointOf(o),
          cacheKeyOf(o), ttlSeconds * OneSecondMs)

\* getDefaultTagLinesForRegion(region) (510-522)
getDefaultTagLinesForRegion(region) ==
    LET regionConfig == getRegionConfig(region)
        continent == regionConfig.value.continent
    IN  IF regionConfig.completion = "throw"
        THEN [completion |-> "throw", message |-> regionConfig.message, value |-> <<>>]
        ELSE [completion |-> "return", message |-> "",
              value |-> CASE continent = "americas" -> <<"NA1", "BR1", "LAN", "LAS", "0000">>
                          [] continent = "europe" -> <<"EUW", "EUNE", "TR1", "RU", "0000">>
                          [] continent = "asia" -> <<"KR1", "JP1", "0000">>
                          [] continent = "sea" ->
                                <<"OCE", "PH2", "SG2", "TH2", "TW2", "VN2", "0000">>
                          [] OTHER -> <<"0000">>]

\* the Error thrown when every default tagLine was tried (504)
notFoundMessage(summonerName) ==
    "Summoner \"" \o summonerName \o "\" not found. Please use full Riot ID format: "
        \o "gameName#tagLine (e.g., \"Faker#KR1\")"

\* getLeagueEntriesBySummonerId(summonerId, region) with
\* Config.riotApi.cache.rankedTtl = rankedTtl seconds (551-557)
getLeagueEntriesBySummonerId(c, summonerId, region, rankedTtl) ==
    Fetch(MaxCalls, c, region, "/lol/league/v4/entries/by-summoner/" \o summonerId, TRUE,
          leagueCacheKey(region, summonerId), rankedTtl * OneSecondMs)

\* the sleep after the global limiter's denial is over (378): on to the app
\* limiter, with no second tryRequest on the global one
WakeGlobal(c) ==
    /\ pc[c] = "sleepGlobal"
    /\ dateNow >= wake[c]
    /\ applyRateLimitApp(c, rateLimiters, admitted[c], entry, FALSE, req[c])
    /\ UNCHANGED <<dateNow, cacheEnabled, cache, calls, rlVars>>

\* the sleep after the app limiter's denial is over (384): applyRateLimit
\* returns and the transport call is issued (346-351)
WakeApp(c) ==
    /\ pc[c] = "sleepApp"
    /\ dateNow >= wake[c]
    /\ Transport(c, req[c])
    /\ admitted' = [admitted EXCEPT ![c] = IF ValidUrl(req[c].url) THEN @ ELSE {}]
    /\ entry' = [entry EXCEPT ![c] = IF ValidUrl(req[c].url) THEN @ ELSE NoEntry]
    /\ UNCHANGED <<dateNow, cacheEnabled, cache, rateLimiters, calls, admits, rlVars>>

\* the call is over: its arguments and its bookkeeping are dropped
Finish(c) ==
    /\ req' = [req EXCEPT ![c] = NoReq]
    /\ wake' = [wake EXCEPT ![c] = 0]
    /\ admitted' = [admitted EXCEPT ![c] = {}]
    /\ entry' = [entry EXCEPT ![c] = NoEntry]
    /\ issuedAt' = [issuedAt EXCEPT ![c] = Never]

RespondOkStoresWithoutTtl(c, data) ==
    /\ pc[c] = "inflight"
    /\ cache' = IF req[c].cacheKey # NoKey /\ cacheEnabled
                THEN setCache(cache, req[c].cacheKey, data, req[c].ttl, dateNow)
                ELSE cache
    /\ pc' = [pc EXCEPT ![c] = "returned"]
    /\ out' = [out EXCEPT ![c] = [kind |-> "value", value |-> data, src |-> "network"]]
    /\ Finish(c)
    /\ UNCHANGED <<dateNow, cacheEnabled, rateLimiters, calls, issued, admits, rlVars>>

\* a 2xx response arrives and is decoded (353-364)
RespondOk(c, data) ==
    /\ pc[c] = "inflight"
    /\ cache' = IF req[c].cacheKey # NoKey /\ req[c].ttl # 0 /\ cacheEnabled
                THEN setCache(cache, req[c].cacheKey, data, req[c].ttl, dateNow)
                ELSE cache
    /\ pc' = [pc EXCEPT ![c] = "returned"]
    /\ out' = [out EXCEPT ![c] = [kind |-> "value", value |-> data, src |-> "network"]]
    /\ Finish(c)
    /\ UNCHANGED <<dateNow, cacheEnabled, rateLimiters, calls, issued, admits, rlVars>>

RespondErrorSubstitutesEmptyList(c, resp) ==
    /\ pc[c] = "inflight"
    /\ ~ok(resp)
    /\ LET e == handleApiError(resp)
       IN  IF e.sleeps # <<>>
           THEN /\ pc' = [pc EXCEPT ![c] = "sleep429"]
                /\ wake' = [wake EXCEPT ![c] = dateNow + setTimeoutDelay(e.sleeps[1])]
                /\ UNCHANGED <<out, req, admitted, entry, issuedAt>>
           ELSE /\ pc' = [pc EXCEPT ![c] = "returned"]
                /\ out' = [out EXCEPT ![c] = [kind |-> "value", value |-> "emptyList",
                                              src |-> "network"]]
                /\ Finish(c)
    /\ UNCHANGED <<dateNow, cacheEnabled, cache, rateLimiters, calls, issued,
                   admits, rlVars>>

\* a non-2xx response arrives (353-355): handleApiError up to its throw, or
\* up to the sleep of a 429
RespondError(c, resp) ==
    /\ pc[c] = "inflight"
    /\ ~ok(resp)
    /\ LET e == handleApiError(resp)
       IN  IF e.sleeps # <<>>
           THEN /\ pc' = [pc EXCEPT ![c] = "sleep429"]
                /\ wake' = [wake EXCEPT ![c] = dateNow + setTimeoutDelay(e.sleeps[1])]
                /\ UNCHANGED <<out, req, admitted, entry, issuedAt>>
           ELSE /\ pc' = [pc EXCEPT ![c] = "failed"]
                /\ out' = [out EXCEPT ![c] = [kind |-> "error", value |-> e.message,
                                              src |-> "network"]]
                /\ Finish(c)
    /\ UNCHANGED <<dateNow, cacheEnabled, cache, rateLimiters, calls, issued,
                   admits, rlVars>>

Wake429Retries(c) ==
    /\ pc[c] = "sleep429"
    /\ dateNow >= wake[c]
    /\ pc' = [pc EXCEPT ![c] = "inflight"]
    /\ issued' = Remember(issued, dateNow, AppWindowMs)
    /\ issuedAt' = [issuedAt EXCEPT ![c] = dateNow]
    /\ wake' = [wake EXCEPT ![c] = 0]
    /\ UNCHANGED <<dateNow, cacheEnabled, cache, rateLimiters, req, out,
                   calls, admits, admitted, entry, rlVars>>

\* the courtesy sleep of a 429 is over (415-416): the error is thrown
Wake429(c) ==
    /\ pc[c] = "sleep429"
    /\ dateNow >= wake[c]
    /\ pc' = [pc EXCEPT ![c] = "failed"]
    /\ out' = [out EXCEPT ![c] = [kind |-> "error", value |-> errorOf(429, ""),
                                  src |-> "network"]]
    /\ Finish(c)
    /\ UNCHANGED <<dateNow, cacheEnabled, cache, rateLimiters, calls, issued,
                   admits, rlVars>>

\* Date.now() advances; a timer that is due fires before the clock moves on
TickUpTo(horizon) ==
    /\ dateNow < horizon
    /\ \A c \in Callers : pc[c] \in Sleeping => wake[c] > dateNow
    /\ dateNow' = dateNow + 1
    /\ UNCHANGED <<cacheEnabled, cache, rateLimiters, pc, req, wake, out, calls,
                   issued, admits, admitted, entry, issuedAt, rlVars>>

Tick == TickUpTo(Horizon) /\ UNCHANGED auxVars

\* the responses the transport returns to the two callers: a retry-after
\* header comes with a 429
Responses ==
    {Response(status, "", NULL, UnparseableBody) : status \in Statuses \ {200, 429}} \cup
    {Response(429, "", h, UnparseableBody) : h \in RetryAfterHeaders}

Next ==
    \/ \E c \in Callers, url \in Urls, k \in Keys \cup {NoKey}, ttl \in {0, TtlMs} :
          makeApiCall(c, url, k, ttl) /\ UNCHANGED auxVars
    \/ \E c \in Callers : WakeGlobal(c) /\ UNCHANGED auxVars
    \/ \E c \in Callers : WakeApp(c) /\ UNCHANGED auxVars
    \/ \E c \in Callers, data \in Bodies : RespondOk(c, data) /\ UNCHANGED auxVars
    \/ \E c \in Callers, resp \in Responses : RespondError(c, resp) /\ UNCHANGED auxVars
    \/ \E c \in Callers : Wake429(c) /\ UNCHANGED auxVars
    \/ Tick

Spec == Init /\ [][Next]_vars

\* ---------------------------------------------------- service properties
\* the transport calls issued in the window of length w that ends with the
\* latest one
IssuedWithin(w) ==
    Cardinality({i \in DOMAIN issued : issued[i] > issued[Len(issued)] - w})

\* the admissions of limiter `name` in its window that ends with the latest
AdmittedWithin(name, w) ==
    Cardinality({i \in DOMAIN admits[name] :
                    admits[name][i] > admits[name][Len(admits[name])] - w})

\* C1: for the burst window and for the sustained window, the transport
\* calls issued within any interval shorter than the window never exceed
\* the window's limit.
C1_TransportCallsWithinQuota ==
    issued # <<>> =>
        /\ IssuedWithin(BurstWindowMs) <= rateLimiters.global.limit
        /\ IssuedWithin(AppWindowMs) <= rateLimiters.app.limit

\* C2: with any interleaving of the callers that share a limiter, the
\* tryRequest calls that returned true with timestamps inside an interval
\* shorter than windowMs never exceed limit.
C2_AdmissionsWithinQuota ==
    /\ admits.global # <<>> =>
          AdmittedWithin("global", BurstWindowMs) <= rateLimiters.global.limit
    /\ admits.app # <<>> =>
          AdmittedWithin("app", AppWindowMs) <= rateLimiters.app.limit

C2_Witness ==
    \E c, d \in Callers :
        /\ pc[c] = "sleepGlobal"
        /\ pc[d] = "inflight"
        /\ "global" \in admitted[d]
        /\ issuedAt[d] = dateNow
        /\ AdmittedWithin("global", BurstWindowMs) = rateLimiters.global.limit

\* C3: a call that missed the cache issues its transport call only after
\* tryRequest has returned true for it on the burst window and then on the
\* sustained window.
C3_IssuedOnlyAfterBothAdmitted ==
    \A c \in Callers : pc[c] = "inflight" => admitted[c] = {"global", "app"}

\* C4: a call that reaches rate limiting when both windows are full, with
\* delays dB and dS, and that no other admission interleaves with, issues
\* its transport call exactly max(dB, dS) later.
C4_WaitsLargerDelay ==
    \A c \in Callers :
        (pc[c] = "inflight" /\ entry[c].full /\ entry[c].alone) =>
            issuedAt[c] - entry[c].t =
                IF entry[c].dB >= entry[c].dS THEN entry[c].dB ELSE entry[c].dS

C4_Witness ==
    \E c \in Callers :
        /\ pc[c] = "inflight"
        /\ entry[c].full
        /\ entry[c].alone
        /\ entry[c].dB > entry[c].dS
        /\ issuedAt[c] = entry[c].t + entry[c].dB

C4_WitnessSustainedLarger ==
    \E c \in Callers :
        /\ pc[c] = "inflight"
        /\ entry[c].full
        /\ entry[c].alone
        /\ entry[c].dB < entry[c].dS
        /\ issuedAt[c] = entry[c].t + entry[c].dS

\* an entry for key k exists and has not expired at time t
Live(k, t) == k \in DOMAIN cache /\ t <= cache[k].timestamp + cache[k].ttl

\* C10: a makeApiCall given a cacheKey, with caching enabled and a live
\* entry for the key, returns that entry's value, issues no transport call
\* and leaves both limiter windows and the cache unchanged.
C10_CacheHitIsFree ==
    [][\A c \in Callers, url \in Urls, k \in Keys, ttl \in {0, TtlMs} :
          (makeApiCall(c, url, k, ttl) /\ cacheEnabled /\ Live(k, dateNow)) =>
              /\ pc'[c] = "returned"
              /\ out'[c].kind = "value"
              /\ out'[c].value = cache[k].data
              /\ UNCHANGED <<cache, rateLimiters, issued, admits>>]_vars

C10_Witness ==
    \E c \in Callers, k \in Keys :
        /\ pc[c] = "returned"
        /\ out[c].src = "cache"
        /\ k \in DOMAIN cache
        /\ out[c].value = cache[k].data
        /\ dateNow = cache[k].timestamp + cache[k].ttl

\* ---------------------------------------------- two callers and one key
\* a RiotApiService after constructor(), caching enabled, with one of the
\* quotas of Config.riotApi.rateLimits.personalKey
SFInit ==
    /\ dateNow = 0
    /\ cacheEnabled = TRUE
    /\ cache = <<>>
    /\ \E limits \in {<<1, 1>>, <<2, 2>>} :
          rateLimiters = [global |-> RateLimiter(limits[1], BurstWindowMs),
                          app |-> RateLimiter(limits[2], AppWindowMs)]
    /\ pc = [c \in Callers |-> "idle"]
    /\ req = [c \in Callers |-> NoReq]
    /\ wake = [c \in Callers |-> 0]
    /\ out = [c \in Callers |-> NoOut]
    /\ calls = 0
    /\ issued = <<>>
    /\ admits = [global |-> <<>>, app |-> <<>>]
    /\ admitted = [c \in Callers |-> {}]
    /\ entry = [c \in Callers |-> NoEntry]
    /\ issuedAt = [c \in Callers |-> Never]
    /\ rl = RateLimiter(1, 1)
    /\ rlNow = 0
    /\ rlLast = [op |-> "new", now |-> 0, before |-> <<>>, after |-> <<>>, ret |-> 0]
    /\ rlCalls = <<>>
    /\ response = NoResponse
    /\ thrown = NoThrown
    /\ cacheLog = <<>>
    /\ keyOps = NoKeyOps
    /\ builtKeys = <<>>
    /\ gwCall = NoCall
    /\ gwDone = NoCall
    /\ regionArg = NULL
    /\ regionRes = NoRegionRes
    /\ resolver = NoLookup
    /\ eq = NoEq

\* the callers ask for the same url under the same cacheKey, and every
\* response is a 2xx
SFNext ==
    \/ \E c \in Callers, url \in Urls, k \in Keys :
          makeApiCall(c, url, k, TtlMs) /\ UNCHANGED auxVars
    \/ \E c \in Callers : WakeGlobal(c) /\ UNCHANGED auxVars
    \/ \E c \in Callers : WakeApp(c) /\ UNCHANGED auxVars
    \/ \E c \in Callers, data \in Bodies : RespondOk(c, data) /\ UNCHANGED auxVars
    \/ Tick

SpecSF == SFInit /\ [][SFNext]_vars

\* every entry of the cache is whole: the decoded body of one response, the
\* time it was stored and the ttl it was stored with
EntriesWhole ==
    \A k \in DOMAIN cache :
        /\ k \in Keys
        /\ DOMAIN cache[k] = {"data", "timestamp", "ttl"}
        /\ cache[k].data \in Bodies
        /\ cache[k].timestamp \in 0..dateNow
        /\ cache[k].ttl = TtlMs

\* a 2xx response to a call with a cacheKey and a ttl, caching enabled,
\* leaves under that key the entry of this very response, whatever was
\* there, and touches no other entry
StoresItsResponse ==
    \A c \in Callers, data \in Bodies :
        (RespondOk(c, data) /\ req[c].cacheKey # NoKey /\ req[c].ttl # 0 /\ cacheEnabled) =>
            /\ DOMAIN cache' = DOMAIN cache \cup {req[c].cacheKey}
            /\ cache'[req[c].cacheKey] =
                   [data |-> data, timestamp |-> dateNow, ttl |-> req[c].ttl]
            /\ \A k \in DOMAIN cache \ {req[c].cacheKey} : cache'[k] = cache[k]

\* C30: makeApiCall gives no single-flight guarantee: two concurrent calls
\* for one cacheKey without a live entry can both miss the cache and both
\* issue a transport call (the witness); afterwards the cache holds one
\* whole entry for the key, that of the response stored last.
C30_NoSingleFlight ==
    []EntriesWhole /\ [][StoresItsResponse]_vars

\* both callers have missed the cache for the same key and both transport
\* calls are in flight
C30_Witness ==
    /\ cacheEnabled
    /\ pc["c1"] = "inflight"
    /\ pc["c2"] = "inflight"
    /\ req["c1"].cacheKey # NoKey
    /\ req["c1"].cacheKey = req["c2"].cacheKey
    /\ req["c1"].url = req["c2"].url
    /\ req["c1"].ttl # 0
    /\ req["c2"].ttl # 0
    /\ req["c1"].cacheKey \notin DOMAIN cache

\* both have returned what the transport gave them, two different values,
\* and the entry holds the one that was stored last
C30_WitnessLastStored ==
    /\ cacheEnabled
    /\ pc["c1"] = "returned"
    /\ pc["c2"] = "returned"
    /\ out["c1"].src = "network"
    /\ out["c2"].src = "network"
    /\ out["c1"].value # out["c2"].value
    /\ \E k \in DOMAIN cache :
          /\ cache[k].data = out["c2"].value
          /\ cache[k].timestamp = dateNow

\* ------------------------------------------------ RateLimiter properties
\* the timestamps of `before` a tryRequest at `now` must keep, as the
\* limiter with window w really prunes: exactly those younger than w
Younger(before, now, w) == SelectSeq(before, LAMBDA t : t > now - w)

\* C5: a limiter with limit q and window w that starts empty admits the
\* first q of q+1 tryRequest calls made within less than w and denies call
\* q+1; a tryRequest made once every recorded admission is a full window
\* old is admitted again.
C5_QuotaThenDeniedThenAdmitted ==
    LET q == rl.limit
        w == rl.windowMs
    IN  /\ (Len(rlCalls) >= q + 1 /\ rlCalls[q + 1].now - rlCalls[1].now < w)
              => /\ \A i \in 1..q : rlCalls[i].ret = TRUE
                 /\ rlCalls[q + 1].ret = FALSE
        /\ \A i \in DOMAIN rlCalls :
              (\A j \in 1..(i - 1) :
                  rlCalls[j].ret => rlCalls[i].now - rlCalls[j].now >= w)
              => rlCalls[i].ret = TRUE

C5_Witness ==
    LET q == rl.limit
        w == rl.windowMs
    IN  /\ Len(rlCalls) >= q + 2
        /\ rlCalls[q + 1].now - rlCalls[1].now < w
        /\ rlCalls[q + 1].ret = FALSE
        /\ \E i \in (q + 2)..Len(rlCalls) :
              /\ rlCalls[i].ret = TRUE
              /\ rlCalls[i].now - rlCalls[q].now >= w

\* C6 as claimed: tryRequest at `now` discards exactly the timestamps
\* t < now - windowMs, keeps t = now - windowMs, and admits (appending now)
\* iff the kept ones are fewer than limit.
C6_KeepsBoundaryTimestamp ==
    rlLast.op = "tryRequest" =>
        LET kept == SelectSeq(rlLast.before, LAMBDA t : ~(t < rlLast.now - rl.windowMs))
        IN  /\ rlLast.ret = (Len(kept) < rl.limit)
            /\ rlLast.after = IF Len(kept) < rl.limit
                              THEN Append(kept, rlLast.now) ELSE kept

\* C6 amended: tryRequest at `now` discards exactly the timestamps
\* t <= now - windowMs (one with t = now - windowMs is discarded too), keeps
\* every younger one in order, and returns true and appends now iff the
\* kept ones are fewer than limit; otherwise it returns false and appends
\* nothing.
C6_DiscardsBoundaryTimestamp ==
    rlLast.op = "tryRequest" =>
        LET kept == Younger(rlLast.before, rlLast.now, rl.windowMs)
        IN  /\ rlLast.ret = (Len(kept) < rl.limit)
            /\ rlLast.ret => rlLast.after = Append(kept, rlLast.now)
            /\ ~rlLast.ret => rlLast.after = kept
            /\ rl.requests = rlLast.after

C6_Witness ==
    /\ rlLast.op = "tryRequest"
    /\ \E i \in DOMAIN rlLast.before : rlLast.before[i] = rlLast.now - rl.windowMs
    /\ \E i \in DOMAIN rlLast.before : rlLast.before[i] > rlLast.now - rl.windowMs
    /\ rlLast.ret = TRUE

\* C7: getRetryAfter at `now` returns 0 when nothing is recorded and
\* otherwise max(0, windowMs - (now - oldest)); the result lies in
\* 0..windowMs and the limiter is left as it was.
C7_RetryAfterValue ==
    rlLast.op = "getRetryAfter" =>
        /\ rlLast.before = <<>> => rlLast.ret = 0
        /\ rlLast.before # <<>> =>
              \E o \in Range(rlLast.before) :
                  /\ \A t \in Range(rlLast.before) : o <= t
                  /\ LET d == rl.windowMs - (rlLast.now - o)
                     IN  rlLast.ret = IF d > 0 THEN d ELSE 0
        /\ rlLast.ret >= 0
        /\ rlLast.ret <= rl.windowMs
        /\ rl.requests = rlLast.before

C7_Witness ==
    /\ rlLast.op = "getRetryAfter"
    /\ Len(rlLast.before) >= 2
    /\ rlLast.before[1] < rlLast.before[2]
    /\ rlLast.ret > 0
    /\ rlLast.ret < rl.windowMs

\* C8: in every reachable state of a RateLimiter the number of recorded
\* timestamps is at most limit.
C8_AtMostLimitRecorded == Len(rl.requests) <= rl.limit

C8_Witness ==
    /\ rlLast.op = "tryRequest"
    /\ rlLast.ret = FALSE
    /\ Len(rl.requests) = rl.limit
    /\ Len(rlCalls) > rl.limit + 1

\* C9 as claimed: at every point in time the recorded timestamps hold no
\* entry older than windowMs relative to the current time.
C9_NeverHoldsExpiredTimestamp ==
    \A i \in DOMAIN rl.requests : rlNow - rl.requests[i] <= rl.windowMs

\* C9 amended: right after a tryRequest, before the clock advances, every
\* recorded timestamp is younger than windowMs; a timestamp that ages out
\* later stays recorded until the next tryRequest prunes it.
C9_FreshRightAfterTryRequest ==
    (rlLast.op = "tryRequest" /\ rlLast.now = rlNow) =>
        \A i \in DOMAIN rl.requests : rlNow - rl.requests[i] < rl.windowMs

C9_Witness ==
    /\ rlLast.op = "tryRequest"
    /\ rlLast.now = rlNow
    /\ \E i \in DOMAIN rlLast.before : rlNow - rlLast.before[i] >= rl.windowMs
    /\ Len(rl.requests) >= 2

\* the tryRequest calls i that were denied and were followed by nothing
\* but denied calls until the call that has just been made
DeniedBefore ==
    {i \in 1..(Len(rlCalls) - 1) : \A k \in i..(Len(rlCalls) - 1) : ~rlCalls[k].ret}

\* the delay getRetryAfter reports at the time of the denied call i: the
\* limiter holds then what the call that has just been made found
DelayReportedAt(i) ==
    getRetryAfter([rl EXCEPT !.requests = rlLast.before], rlCalls[i].now)

\* C34: when tryRequest returned false at time t and getRetryAfter read at t
\* gives d, a tryRequest made at t + d, with no admission in between,
\* returns true: the reported delay is long enough.
C34_RetryAfterSuffices ==
    rlLast.op = "tryRequest" =>
        \A i \in DeniedBefore :
            rlLast.now = rlCalls[i].now + DelayReportedAt(i) => rlLast.ret = TRUE

\* a call denied at t, a delay d > 0 reported, and the call at t + d admitted
\* by a limiter of limit 2 that still holds a younger timestamp
C34_Witness ==
    /\ rlLast.op = "tryRequest"
    /\ rl.limit = 2
    /\ rlLast.ret = TRUE
    /\ Len(rlLast.after) = 2
    /\ \E i \in DeniedBefore :
          /\ DelayReportedAt(i) > 0
          /\ rlLast.now = rlCalls[i].now + DelayReportedAt(i)

\* ---------------------------------------- stand-alone handleApiError
\* statuses of responses that are not ok: the nine the switch names and
\* three it does not
ErrorStatuses == {400, 401, 403, 404, 415, 429, 500, 502, 503, 302, 418, 504}

StatusTexts == {"", "Status Text"}      \* response.statusText

\* response.headers.get('retry-after'): absent, empty, delay-seconds in
\* several spellings, and an HTTP-date
ErrorRetryAfterHeaders ==
    {NULL, "", "0", "2", " 3", "+1", "-1", "1.5", "0x10", "soon",
     "Wed, 21 Oct 2015 07:28:00 GMT"}

\* error bodies: not JSON, JSON null, {}, {status: {}} and
\* {status: {message: ...}}
ErrorBodies ==
    {UnparseableBody, JsonNullBody, EmptyObjectBody, StatusBody(""),
     StatusBody("Data not found - summoner not found")}

ErrorResponses ==
    {Response(status, text, h, body) :
        status \in ErrorStatuses, text \in StatusTexts,
        h \in ErrorRetryAfterHeaders, body \in ErrorBodies}

\* some response that is not ok has arrived; nothing else is exercised
ErrInit ==
    /\ response \in ErrorResponses
    /\ thrown = NoThrown
    /\ rl = RateLimiter(1, 1)
    /\ rlNow = 0
    /\ rlLast = [op |-> "new", now |-> 0, before |-> <<>>, after |-> <<>>, ret |-> 0]
    /\ rlCalls = <<>>
    /\ dateNow = 0
    /\ cacheEnabled = TRUE
    /\ cache = <<>>
    /\ rateLimiters = [global |-> RateLimiter(1, BurstWindowMs),
                       app |-> RateLimiter(1, AppWindowMs)]
    /\ pc = [c \in Callers |-> "idle"]
    /\ req = [c \in Callers |-> NoReq]
    /\ wake = [c \in Callers |-> 0]
    /\ out = [c \in Callers |-> NoOut]
    /\ calls = 0
    /\ issued = <<>>
    /\ admits = [global |-> <<>>, app |-> <<>>]
    /\ admitted = [c \in Callers |-> {}]
    /\ entry = [c \in Callers |-> NoEntry]
    /\ issuedAt = [c \in Callers |-> Never]
    /\ cacheLog = <<>>
    /\ keyOps = NoKeyOps
    /\ builtKeys = <<>>
    /\ gwCall = NoCall
    /\ gwDone = NoCall
    /\ eq = NoEq
    /\ resolver = NoLookup
    /\ regionRes = NoRegionRes
    /\ regionArg = NULL

\* await this.handleApiError(response)
ErrHandleApiError ==
    /\ thrown = NoThrown
    /\ ~ok(response)
    /\ thrown' = handleApiError(response)
    /\ UNCHANGED <<response, cacheLog, keyOps, builtKeys, gwCall, gwDone, resVars, rlVars, svcVars>>

ErrNext == ErrHandleApiError

SpecErr == ErrInit /\ [][ErrNext]_vars

\* --------------------------------------------- handleApiError properties
\* the failure kind an Error stands for, read off the label its message
\* starts with
KindOfMessage(m) ==
    CASE StartsWith(m, "Bad Request: ") -> "BadRequest"
      [] StartsWith(m, "Unauthorized: ") -> "Unauthorized"
      [] StartsWith(m, "Forbidden: ") -> "Forbidden"
      [] StartsWith(m, "Not Found: ") -> "NotFound"
      [] StartsWith(m, "Unsupported Media Type") -> "UnsupportedPayload"
      [] StartsWith(m, "Rate limited by Riot API") -> "RateLimited"
      [] StartsWith(m, "Internal Server Error: ") -> "ServerError"
      [] StartsWith(m, "Bad Gateway: ") -> "ServiceUnavailable"
      [] StartsWith(m, "Service Unavailable: ") -> "ServiceUnavailable"
      [] StartsWith(m, "API Error ") -> "Unknown"
      [] OTHER -> "none"

\* the failure kind the mapping assigns to a status
KindOfStatus(status) ==
    CASE status = 400 -> "BadRequest"
      [] status = 401 -> "Unauthorized"
      [] status = 403 -> "Forbidden"
      [] status = 404 -> "NotFound"
      [] status = 415 -> "UnsupportedPayload"
      [] status = 429 -> "RateLimited"
      [] status = 500 -> "ServerError"
      [] status \in {502, 503} -> "ServiceUnavailable"
      [] OTHER -> "Unknown"

\* C15: for every status that is not 2xx, handleApiError ends by throwing
\* one Error, never by returning, and the Error's kind is the one the
\* mapping assigns to the status, whatever the body, the status text and
\* the headers are; an Unknown failure carries the status code.
C15_KindFixedByStatus ==
    thrown # NoThrown =>
        /\ thrown.completion = "throw"
        /\ KindOfMessage(thrown.message) = KindOfStatus(response.status)
        /\ KindOfStatus(response.status) = "Unknown" =>
              StartsWith(thrown.message, "API Error " \o ToString(response.status) \o ": ")

C15_Witness ==
    /\ thrown.completion = "throw"
    /\ response.status = 502
    /\ response.body.hasStatus
    /\ response.retryAfter = "2"
    /\ KindOfMessage(thrown.message) = "ServiceUnavailable"

\* C16: for a 429 the wait hint is 1000 ms times the seconds of the
\* retry-after header when the header is present ("2" gives 2000 ms) and
\* 1000 ms when it is absent, and for every header value it is a
\* well-defined, non-negative number of milliseconds.
C16_WaitHintWellDefined ==
    (thrown # NoThrown /\ response.status = 429) =>
        /\ Len(thrown.sleeps) = 1
        /\ response.retryAfter = NULL => thrown.sleeps[1] = Num(OneSecondMs)
        /\ response.retryAfter = "2" => thrown.sleeps[1] = Num(2 * OneSecondMs)
        /\ ~thrown.sleeps[1].nan
        /\ thrown.sleeps[1].n >= 0

\* the generic message of a response
GenericMessage(r) == "HTTP " \o ToString(r.status) \o ": " \o r.statusText

\* C17: for every status that is not 2xx and every error body, with a
\* status.message, without one, or unparseable, handleApiError throws the
\* failure of the status; with an unparseable body the Error is the one a
\* body without status.message gives, its message ending in the generic
\* "HTTP <code>: <status text>" wherever the body's message would stand.
C17_UnparseableBodyFallsBack ==
    thrown # NoThrown =>
        /\ thrown.completion = "throw"
        /\ KindOfMessage(thrown.message) = KindOfStatus(response.status)
        /\ ~response.body.parses =>
              /\ thrown = handleApiError([response EXCEPT !.body = EmptyObjectBody])
              /\ KindOfStatus(response.status) \in {"BadRequest", "Unknown"} =>
                    EndsWith(thrown.message, ": " \o GenericMessage(response))

C17_Witness ==
    /\ thrown.completion = "throw"
    /\ response.body = UnparseableBody
    /\ response.status = 400
    /\ response.statusText = "Status Text"
    /\ thrown.message = "Bad Request: HTTP 400: Status Text"

\* ------------------------------------------------- stand-alone cache
CacheKeys == {"k1", "k2"}         \* keys given to setCache and getFromCache

CacheData == {"v1", "v2"}         \* values stored

CacheTtls == {1, TtlMs}           \* positive lifetimes

\* horizon of the clock: the longest lifetime can run out after a late store
CacheHorizon == TtlMs + 2

\* the log keeps the last two operations
LogOp(op, key, data, ttl, had, ret, keys) ==
    LET e == [op |-> op, key |-> key, data |-> data, ttl |-> ttl, now |-> dateNow,
              had |-> had, ret |-> ret, keys |-> keys]
    IN  IF cacheLog = <<>> THEN <<e>> ELSE <<cacheLog[Len(cacheLog)], e>>

\* new Map(): the cache of a service just constructed; nothing else is
\* exercised
CacheInit ==
    /\ cache = <<>>
    /\ dateNow = 0
    /\ cacheLog = <<>>
    /\ cacheEnabled = TRUE
    /\ rl = RateLimiter(1, 1)
    /\ rlNow = 0
    /\ rlLast = [op |-> "new", now |-> 0, before |-> <<>>, after |-> <<>>, ret |-> 0]
    /\ rlCalls = <<>>
    /\ rateLimiters = [global |-> RateLimiter(1, BurstWindowMs),
                       app |-> RateLimiter(1, AppWindowMs)]
    /\ pc = [c \in Callers |-> "idle"]
    /\ req = [c \in Callers |-> NoReq]
    /\ wake = [c \in Callers |-> 0]
    /\ out = [c \in Callers |-> NoOut]
    /\ calls = 0
    /\ issued = <<>>
    /\ admits = [global |-> <<>>, app |-> <<>>]
    /\ admitted = [c \in Callers |-> {}]
    /\ entry = [c \in Callers |-> NoEntry]
    /\ issuedAt = [c \in Callers |-> Never]
    /\ response = NoResponse
    /\ thrown = NoThrown
    /\ keyOps = NoKeyOps
    /\ builtKeys = <<>>
    /\ gwCall = NoCall
    /\ gwDone = NoCall
    /\ eq = NoEq
    /\ resolver = NoLookup
    /\ regionRes = NoRegionRes
    /\ regionArg = NULL

\* everything but the cache, its clock and its log
cacheFrame == <<cacheEnabled, rateLimiters, pc, req, wake, out, calls, issued, admits,
                admitted, entry, issuedAt, response, thrown, keyOps, builtKeys,
                gwCall, gwDone, resVars, rl, rlNow, rlLast, rlCalls>>

\* this.setCache(key, data, ttl)
CacheSet(key, data, ttl) ==
    /\ cache' = setCache(cache, key, data, ttl, dateNow)
    /\ cacheLog' = LogOp("setCache", key, data, ttl, key \in DOMAIN cache, NULL, {})
    /\ UNCHANGED <<dateNow, cacheFrame>>

\* this.getFromCache(key)
CacheGet(key) ==
    LET got == getFromCache(cache, key, dateNow)
    IN  /\ cache' = got.cache
        /\ cacheLog' = LogOp("getFromCache", key, NULL, 0, key \in DOMAIN cache,
                             got.value, {})
        /\ UNCHANGED <<dateNow, cacheFrame>>

\* this.getCacheStats()
CacheStats ==
    /\ cacheLog # <<>>
    /\ cacheLog[Len(cacheLog)].op # "getCacheStats"
    /\ cacheLog' = LogOp("getCacheStats", NULL, NULL, 0, FALSE, NULL,
                         getCacheStats(cache).keys)
    /\ UNCHANGED <<cache, dateNow, cacheFrame>>

\* this.clearCache() (614-617)
CacheClear ==
    /\ cache # <<>>
    /\ cache' = <<>>
    /\ cacheLog' = LogOp("clearCache", NULL, NULL, 0, FALSE, NULL, {})
    /\ UNCHANGED <<dateNow, cacheFrame>>

CacheTick ==
    /\ dateNow < CacheHorizon
    /\ dateNow' = dateNow + 1
    /\ UNCHANGED <<cache, cacheLog, cacheFrame>>

CacheNext ==
    \/ \E key \in CacheKeys, data \in CacheData, ttl \in CacheTtls : CacheSet(key, data, ttl)
    \/ \E key \in CacheKeys : CacheGet(key)
    \/ CacheStats
    \/ CacheClear
    \/ CacheTick

SpecCache == CacheInit /\ [][CacheNext]_vars

\* ------------------------------------------------------ cache properties
\* C12: for every key, value and positive ttl, a getFromCache(key) made
\* right after setCache(key, value, ttl) returns value, whatever was stored
\* for the key before; a getFromCache(key) made more than ttl after the
\* store returns null; and a getCacheStats() made after a getFromCache that
\* returned null does not list the key.
C12_SetGetExpire ==
    Len(cacheLog) = 2 =>
        LET prev == cacheLog[1]
            last == cacheLog[2]
        IN  /\ (prev.op = "setCache" /\ last.op = "getFromCache" /\ last.key = prev.key)
                  => /\ last.now = prev.now => last.ret = prev.data
                     /\ last.now > prev.now + prev.ttl => last.ret = NULL
            /\ (prev.op = "getFromCache" /\ prev.ret = NULL /\ last.op = "getCacheStats")
                  => prev.key \notin last.keys

C12_Witness ==
    /\ Len(cacheLog) = 2
    /\ cacheLog[1].op = "getFromCache"
    /\ cacheLog[1].had
    /\ cacheLog[1].ret = NULL
    /\ cacheLog[2].op = "getCacheStats"
    /\ cacheLog[2].keys = CacheKeys \ {cacheLog[1].key}

C12_WitnessOverwrite ==
    /\ Len(cacheLog) = 2
    /\ cacheLog[1].op = "setCache"
    /\ cacheLog[1].had
    /\ cacheLog[2].op = "getFromCache"
    /\ cacheLog[2].key = cacheLog[1].key
    /\ cacheLog[2].now = cacheLog[1].now
    /\ cacheLog[2].ret = cacheLog[1].data

\* getFromCache(key) returns the value of the entry of key when there is
\* one and the clock is at most at timestamp + ttl, and then leaves the cache
\* as it is; otherwise it returns null, and an entry that is there is
\* deleted, no other entry being touched
ReadsLiveEntry ==
    \A key \in CacheKeys :
        CacheGet(key) =>
            LET live == key \in DOMAIN cache
                            /\ dateNow <= cache[key].timestamp + cache[key].ttl
                ret == cacheLog'[Len(cacheLog')].ret
            IN  /\ ret = IF live THEN cache[key].data ELSE NULL
                /\ live => cache' = cache
                /\ ~live =>
                       /\ DOMAIN cache' = DOMAIN cache \ {key}
                       /\ \A k \in DOMAIN cache' : cache'[k] = cache[k]

\* an entry that differs after a step was put there whole by the setCache of
\* that step; an entry that is gone was deleted by a getFromCache that found
\* it expired, or by clearCache
NeverModifiedInPlace ==
    LET last == cacheLog'[Len(cacheLog')]
    IN  /\ \A k \in DOMAIN cache' :
              (k \notin DOMAIN cache \/ cache'[k] # cache[k]) =>
                  /\ cacheLog' # cacheLog
                  /\ last.op = "setCache"
                  /\ last.key = k
                  /\ cache'[k] = [data |-> last.data, timestamp |-> dateNow,
                                  ttl |-> last.ttl]
        /\ \A k \in DOMAIN cache \ DOMAIN cache' :
              /\ cacheLog' # cacheLog
              /\ \/ last.op = "clearCache"
                 \/ /\ last.op = "getFromCache"
                    /\ last.key = k
                    /\ dateNow > cache[k].timestamp + cache[k].ttl

\* C32: getFromCache(k) at time now returns the stored value exactly when
\* an entry for k exists with now <= timestamp + ttl (at timestamp + ttl the
\* entry is still live); when now > timestamp + ttl it returns null and
\* deletes that entry and no other; entries are never modified in place,
\* only replaced whole by setCache or deleted.
C32_LiveIffWithinTtl ==
    [][ReadsLiveEntry]_vars /\ [][NeverModifiedInPlace]_vars

\* a read exactly at timestamp + ttl has returned the value and the entry
\* is still there
C32_Witness ==
    /\ cacheLog # <<>>
    /\ LET last == cacheLog[Len(cacheLog)]
       IN  /\ last.op = "getFromCache"
           /\ last.key \in DOMAIN cache
           /\ last.now = cache[last.key].timestamp + cache[last.key].ttl
           /\ last.ret = cache[last.key].data
           /\ dateNow = last.now

\* a read after timestamp + ttl has returned null and deleted the entry,
\* the entry of the other key being kept
C32_WitnessExpired ==
    /\ cacheLog # <<>>
    /\ LET last == cacheLog[Len(cacheLog)]
       IN  /\ last.op = "getFromCache"
           /\ last.had
           /\ last.ret = NULL
           /\ last.key \notin DOMAIN cache
           /\ cache # <<>>

\* ------------------------------------------------ cache-key construction
KeyRegions == {"na1", "euw1"}            \* regions getRegionConfig accepts

\* identifiers handed in as puuid, summonerId, matchId, gameName or tagLine
KeyIds == {"p", "p:7", "7", "na1:p"}

KeyChampionIds == {7, 266}

KeyQueues == {0, 420}

KeyTypes == {"", "ranked"}               \* "" when the caller gives no type

KeyTimes == {0, 1700000000}              \* 0 when the caller gives no time

KeyOperations ==
    {KeyOp("getAccountByRiotId", r, g, t, 0, 0) : r \in KeyRegions, g \in KeyIds, t \in KeyIds}
    \cup {KeyOp("getSummonerByPuuid", r, p, "", 0, 0) : r \in KeyRegions, p \in KeyIds}
    \cup {KeyOp("getLeagueEntriesBySummonerId", r, p, "", 0, 0) : r \in KeyRegions, p \in KeyIds}
    \cup {KeyOp("getChampionMasteryByPuuid", r, p, "", 0, 0) : r \in KeyRegions, p \in KeyIds}
    \cup {KeyOp("getChampionMasteryByChampion", r, p, "", ch, 0) :
             r \in KeyRegions, p \in KeyIds, ch \in KeyChampionIds}
    \cup {[KeyOp("getMatchIdsByPuuid", r, p, "", 0, q)
               EXCEPT !.type = ty, !.startTime = st, !.endTime = et] :
             r \in KeyRegions, p \in KeyIds, q \in KeyQueues, ty \in KeyTypes,
             st \in KeyTimes, et \in KeyTimes}
    \cup {KeyOp("getMatchById", r, p, "", 0, 0) : r \in KeyRegions, p \in KeyIds}

\* two fetch operations are about to be called; nothing else is exercised
KeyInit ==
    /\ keyOps \in KeyOperations \X KeyOperations
    /\ builtKeys = <<>>
    /\ response = NoResponse
    /\ thrown = NoThrown
    /\ cacheLog = <<>>
    /\ gwCall = NoCall
    /\ gwDone = NoCall
    /\ eq = NoEq
    /\ resolver = NoLookup
    /\ regionRes = NoRegionRes
    /\ regionArg = NULL
    /\ rl = RateLimiter(1, 1)
    /\ rlNow = 0
    /\ rlLast = [op |-> "new", now |-> 0, before |-> <<>>, after |-> <<>>, ret |-> 0]
    /\ rlCalls = <<>>
    /\ dateNow = 0
    /\ cacheEnabled = TRUE
    /\ cache = <<>>
    /\ rateLimiters = [global |-> RateLimiter(1, BurstWindowMs),
                       app |-> RateLimiter(1, AppWindowMs)]
    /\ pc = [c \in Callers |-> "idle"]
    /\ req = [c \in Callers |-> NoReq]
    /\ wake = [c \in Callers |-> 0]
    /\ out = [c \in Callers |-> NoOut]
    /\ calls = 0
    /\ issued = <<>>
    /\ admits = [global |-> <<>>, app |-> <<>>]
    /\ admitted = [c \in Callers |-> {}]
    /\ entry = [c \in Callers |-> NoEntry]
    /\ issuedAt = [c \in Callers |-> Never]

\* both operations build their cacheKey
KeyBuild ==
    /\ builtKeys = <<>>
    /\ builtKeys' = <<cacheKeyOf(keyOps[1]), cacheKeyOf(keyOps[2])>>
    /\ UNCHANGED <<keyOps, response, thrown, cacheLog, gwCall, gwDone, resVars, rlVars, svcVars>>

KeyNext == KeyBuild

SpecKeys == KeyInit /\ [][KeyNext]_vars

\* ---------------------------------------------------- cache-key properties
\* the text of a key up to and including its first ':'
KeyPrefix(k) ==
    LET colons == {i \in 1..Len(k) : CharAt(k, i) = ":"}
    IN  IF colons = {} THEN k ELSE SubSeq(k, 1, SetMin(colons))

\* C14: for all argument values, the keys that two of the seven fetch
\* operations of different resource kinds build are different, and the
\* prefix a key starts with belongs to its resource kind alone.
C14_KeysOfDifferentKindsDiffer ==
    (builtKeys # <<>> /\ keyOps[1].kind # keyOps[2].kind) =>
        /\ builtKeys[1] # builtKeys[2]
        /\ KeyPrefix(builtKeys[1]) # KeyPrefix(builtKeys[2])

\* the two operations are both called with a region getRegionConfig accepts
\* and have built their keys
KeysBuilt ==
    /\ builtKeys # <<>>
    /\ urlOf(keyOps[1]).completion = "return"
    /\ urlOf(keyOps[2]).completion = "return"

\* C33: whenever two invocations of the public fetch methods compute the
\* same cache key, they also compute the same request URL, so that a cache
\* hit never returns the response of a different request; this includes
\* getSummonerByPuuid with one puuid on two regions and getMatchIdsByPuuid
\* with different type, startTime or endTime.
C33_SameKeySameUrl ==
    (KeysBuilt /\ builtKeys[1] = builtKeys[2]) =>
        urlOf(keyOps[1]).value = urlOf(keyOps[2]).value

\* getSummonerByPuuid is called with one puuid on two regions and builds one
\* key for the two urls
C33_SamePuuidTwoRegions ==
    /\ KeysBuilt
    /\ keyOps[1].kind = "getSummonerByPuuid"
    /\ keyOps[2] = [keyOps[1] EXCEPT !.region = "euw1"]
    /\ keyOps[1].region = "na1"
    /\ builtKeys[1] = builtKeys[2]
    /\ urlOf(keyOps[1]).value # urlOf(keyOps[2]).value

\* getMatchIdsByPuuid is called twice with different type, startTime and
\* endTime and builds one key for the two urls
C33_DifferentFilters ==
    /\ KeysBuilt
    /\ keyOps[1].kind = "getMatchIdsByPuuid"
    /\ keyOps[2] = [keyOps[1] EXCEPT !.type = "ranked", !.startTime = 1700000000,
                                     !.endTime = 1700000000]
    /\ keyOps[1].type = "" /\ keyOps[1].startTime = 0 /\ keyOps[1].endTime = 0
    /\ builtKeys[1] = builtKeys[2]
    /\ urlOf(keyOps[1]).value # urlOf(keyOps[2]).value

\* ------------------------------------------- one caller at the gateway
GW == "c1"                        \* the caller that is observed

GWSummonerIds == {"s1", "s2"}

GWRegions == {"na1"}

RankedTtls == {0, 1}              \* Config.riotApi.cache.rankedTtl, seconds

GWStatuses == {404, 429, 503}     \* statuses of responses that are not ok

\* the retry-after header: absent, delay-seconds, and no delay-seconds
GWRetryAfterHeaders == {NULL, "1", "-1", "soon"}

GWResponses ==
    {Response(status, "", h, UnparseableBody) :
        status \in GWStatuses, h \in GWRetryAfterHeaders}

\* Config.riotApi.rateLimits.personalKey of the observed service
GWQuota == <<1, 2>>

\* a RiotApiService after constructor(), with caching enabled or disabled
GWInit ==
    /\ dateNow = 0
    /\ cacheEnabled \in BOOLEAN
    /\ cache = <<>>
    /\ rateLimiters = [global |-> RateLimiter(GWQuota[1], BurstWindowMs),
                       app |-> RateLimiter(GWQuota[2], AppWindowMs)]
    /\ pc = [c \in Callers |-> "idle"]
    /\ req = [c \in Callers |-> NoReq]
    /\ wake = [c \in Callers |-> 0]
    /\ out = [c \in Callers |-> NoOut]
    /\ calls = 0
    /\ issued = <<>>
    /\ admits = [global |-> <<>>, app |-> <<>>]
    /\ admitted = [c \in Callers |-> {}]
    /\ entry = [c \in Callers |-> NoEntry]
    /\ issuedAt = [c \in Callers |-> Never]
    /\ rl = RateLimiter(1, 1)
    /\ rlNow = 0
    /\ rlLast = [op |-> "new", now |-> 0, before |-> <<>>, after |-> <<>>, ret |-> 0]
    /\ rlCalls = <<>>
    /\ response = NoResponse
    /\ thrown = NoThrown
    /\ cacheLog = <<>>
    /\ keyOps = NoKeyOps
    /\ builtKeys = <<>>
    /\ gwCall = NoCall
    /\ gwDone = NoCall
    /\ eq = NoEq
    /\ resolver = NoLookup
    /\ regionRes = NoRegionRes
    /\ regionArg = NULL

\* the headers of the transport call (348-350)
TransportRequest == [name |-> "X-Riot-Token", value |-> "Config.riotApi.key"]

\* what a step did to the cache, seen from the call with cacheKey `key`:
\* nothing, the removal of the key's own expired entry, or a write
CacheEffect(key) ==
    IF cache' = cache THEN {}
    ELSE IF /\ key \in DOMAIN cache
            /\ dateNow > cache[key].timestamp + cache[key].ttl
            /\ cache' = cacheDelete(cache, key)
         THEN {"evictedExpired"}
         ELSE {"written"}

\* what the caller and the transport see of a step of the call `call`;
\* responded: the response has arrived by the end of this step
GWObserve(call, responded) ==
    LET seen == [call EXCEPT
                   !.requests = IF issued' # issued
                                THEN Append(call.requests, TransportRequest)
                                ELSE call.requests,
                   !.timers = IF pc'[GW] = "sleep429" THEN call.timers + 1
                              ELSE call.timers,
                   !.effects = call.effects \cup CacheEffect(call.key),
                   !.respEffects = IF responded
                                   THEN call.respEffects \cup CacheEffect(call.key)
                                   ELSE call.respEffects]
    IN  IF pc'[GW] \in {"returned", "failed"}
        THEN /\ gwDone' = [seen EXCEPT !.end = dateNow,
                                       !.respAt = Never,
                                       !.waited = IF seen.respAt = Never THEN 0
                                                  ELSE dateNow - seen.respAt,
                                       !.kind = out'[GW].kind,
                                       !.value = out'[GW].value,
                                       !.src = out'[GW].src]
             /\ gwCall' = NoCall
        ELSE /\ gwCall' = seen
             /\ gwDone' = NoCall

\* the call that begins follows a call of the same operation and key that
\* stored its response, and begins within that response's ttl
FollowsStored(op, key) ==
    /\ cacheEnabled
    /\ gwDone.enabled
    /\ gwDone.op = op
    /\ key # NoKey
    /\ gwDone.key = key
    /\ gwDone.kind = "value"
    /\ gwDone.src = "network"
    /\ gwDone.ttl > 0
    /\ dateNow <= gwDone.end + gwDone.ttl

Begin(op, key, ttl) ==
    [NoCall EXCEPT !.op = op, !.key = key, !.ttl = ttl, !.enabled = cacheEnabled,
                   !.warm = IF FollowsStored(op, key) THEN gwDone.value ELSE NULL,
                   !.prevRequests = IF FollowsStored(op, key)
                                    THEN Len(gwDone.requests) ELSE 0]

GWGetLeagueEntries(summonerId, region, rankedTtl) ==
    /\ getLeagueEntriesBySummonerId(GW, summonerId, region, rankedTtl)
    /\ GWObserve(Begin("getLeagueEntriesBySummonerId",
                       leagueCacheKey(region, summonerId), rankedTtl * OneSecondMs), FALSE)
    /\ UNCHANGED <<response, thrown, cacheLog, keyOps, builtKeys, resVars>>

\* makeApiCall(url) and makeApiCall(url, undefined, ttl)
GWMakeApiCall(ttl) ==
    /\ \E url \in Urls : makeApiCall(GW, url, NoKey, ttl)
    /\ GWObserve(Begin("makeApiCall", NoKey, ttl), FALSE)
    /\ UNCHANGED <<response, thrown, cacheLog, keyOps, builtKeys, resVars>>

GWWakeGlobal ==
    /\ WakeGlobal(GW)
    /\ GWObserve(gwCall, gwCall.respAt # Never)
    /\ UNCHANGED <<response, thrown, cacheLog, keyOps, builtKeys, resVars>>

GWWakeApp ==
    /\ WakeApp(GW)
    /\ GWObserve(gwCall, gwCall.respAt # Never)
    /\ UNCHANGED <<response, thrown, cacheLog, keyOps, builtKeys, resVars>>

GWRespondOk(data) ==
    /\ RespondOk(GW, data)
    /\ GWObserve([gwCall EXCEPT !.status = 200, !.respAt = dateNow], TRUE)
    /\ UNCHANGED <<response, thrown, cacheLog, keyOps, builtKeys, resVars>>

GWRespondError(resp) ==
    /\ RespondError(GW, resp)
    /\ GWObserve([gwCall EXCEPT !.status = resp.status,
                                !.hint = handleApiError(resp).sleeps,
                                !.respAt = dateNow], TRUE)
    /\ UNCHANGED <<response, thrown, cacheLog, keyOps, builtKeys, resVars>>

GWWake429 ==
    /\ Wake429(GW)
    /\ GWObserve(gwCall, gwCall.respAt # Never)
    /\ UNCHANGED <<response, thrown, cacheLog, keyOps, builtKeys, resVars>>

\* Config.riotApi.cache.enabled is set to b between two calls
GWSetCacheEnabled(b) ==
    /\ pc[GW] \in Done
    /\ cacheEnabled # b
    /\ cacheEnabled' = b
    /\ UNCHANGED <<dateNow, cache, rateLimiters, pc, req, wake, out, calls, issued,
                   admits, admitted, entry, issuedAt, rlVars, auxVars>>

GWNext ==
    \/ \E b \in BOOLEAN : GWSetCacheEnabled(b)
    \/ \E summonerId \in GWSummonerIds, region \in GWRegions, rankedTtl \in RankedTtls :
          GWGetLeagueEntries(summonerId, region, rankedTtl)
    \/ \E ttl \in {0, TtlMs} : GWMakeApiCall(ttl)
    \/ GWWakeGlobal
    \/ GWWakeApp
    \/ \E data \in Bodies : GWRespondOk(data)
    \/ \E resp \in GWResponses : GWRespondError(resp)
    \/ GWWake429
    \/ Tick

SpecGW == GWInit /\ [][GWNext]_vars

\* ----------------------------------------------------- gateway properties
\* the call in progress and the call that completed last
Observed == {d \in {gwCall, gwDone} : d.op # "none"}

\* C11: with caching enabled and a positive rankedTtl, a
\* getLeagueEntriesBySummonerId call that follows a call for the same
\* summoner id and region which stored its response, and begins within
\* that response's ttl, issues no transport call, so the two calls issue
\* exactly one, and returns the value the first returned, an empty list
\* included.
C11_SecondCallWithinTtlIsAHit ==
    /\ gwCall.warm = NULL
    /\ (gwDone.op = "getLeagueEntriesBySummonerId" /\ gwDone.warm # NULL) =>
          /\ gwDone.prevRequests + Len(gwDone.requests) = 1
          /\ gwDone.kind = "value"
          /\ gwDone.value = gwDone.warm

C11_Witness ==
    /\ gwDone.op = "getLeagueEntriesBySummonerId"
    /\ gwDone.warm = "emptyList"
    /\ gwDone.value = "emptyList"
    /\ gwDone.src = "cache"
    /\ gwDone.prevRequests = 1
    /\ gwDone.key \in DOMAIN cache
    /\ dateNow = cache[gwDone.key].timestamp + cache[gwDone.key].ttl

C13_WitnessDisabled ==
    /\ gwDone.op # "none"
    /\ ~gwDone.enabled
    /\ gwDone.kind = "value"
    /\ gwDone.ttl > 0
    /\ gwDone.key \in DOMAIN cache
    /\ dateNow <= cache[gwDone.key].timestamp + cache[gwDone.key].ttl

\* C18: a makeApiCall that is not answered from the cache issues exactly
\* one transport call, with the X-Riot-Token header, whatever the status of
\* the response; no call ever issues a second one.
C18_ExactlyOneTransportCall ==
    /\ \A d \in Observed :
          /\ Len(d.requests) <= 1
          /\ \A i \in DOMAIN d.requests :
                d.requests[i] = [name |-> "X-Riot-Token", value |-> "Config.riotApi.key"]
    /\ (gwDone.op # "none" /\ gwDone.src # "cache") => Len(gwDone.requests) = 1

C18_Witness ==
    /\ gwDone.status = 429
    /\ gwDone.kind = "error"
    /\ gwDone.timers = 1
    /\ Len(gwDone.requests) = 1

\* C19: after a 429 the failure reaches the caller only when the call has
\* slept the hinted duration, which is a number of milliseconds; after
\* any other status that is not 2xx it reaches the caller at once, with no
\* sleep.
C19_SleepsHintOnlyFor429 ==
    /\ gwDone.status = 429 =>
          /\ gwDone.timers = 1
          /\ Len(gwDone.hint) = 1
          /\ ~gwDone.hint[1].nan
          /\ gwDone.waited >= gwDone.hint[1].n
    /\ gwDone.status \notin {0, 200, 429} =>
          /\ gwDone.timers = 0
          /\ gwDone.waited = 0

ResCalls == 2 * 7

\* Config.riotApi.cache.summonerTtl and the other ttls, in seconds
ConfigTtl == 1

\* Config.riotApi.rateLimits.personalKey: the limit per 2 minutes admits
\* every call of the run, the limit per second does not
ResQuota == <<2, ResCalls>>

\* horizon of the clock: a sleep of the per-second window can end
ResHorizon == BurstWindowMs

\* the handles passed as summonerName
ResHandles == {"bob", "bob ", "bob#NA1", "bob #NA1", "#NA1", "bob#", "bob#NA1#x"}

\* the regions passed: of two continents, none, and a name REGIONS inherits
ResRegions == {"na1", "kr", "xx", "constructor"}

\* a RiotAccount, written as its puuid, and a RiotSummoner
ResAccounts == {"p1"}

ResSummoners == {"summoner"}

\* the responses that are not ok
ResResponses ==
    {Response(404, "Not Found", NULL, UnparseableBody),
     Response(400, "Bad Request", NULL, UnparseableBody),
     Response(400, "Bad Request", NULL, StatusBody("Data Not Found")),
     Response(503, "Service Unavailable", NULL, UnparseableBody),
     Response(429, "Too Many Requests", NULL, UnparseableBody)}

\* the single-call fetch methods, called directly
ResOperations ==
    {KeyOp("getAccountByRiotId", r, "bob", "NA1", 0, 0) : r \in ResRegions}
    \cup {KeyOp(k, r, "p1", "", 0, 0) :
             k \in {"getSummonerByPuuid", "getLeagueEntriesBySummonerId",
                    "getChampionMasteryByPuuid", "getMatchById"}, r \in ResRegions}
    \cup {KeyOp("getChampionMasteryByChampion", r, "p1", "", 7, 0) : r \in ResRegions}
    \cup {KeyOp("getMatchIdsByPuuid", r, "p1", "", 0, 420) : r \in ResRegions}

\* one makeApiCall chain of the resolver: the arguments of getSummonerByRiotId
\* (empty for a single fetch), the urls built, the urls sent to the
\* transport, the account the first call returned, and the status of the
\* response that was not ok
Attempt(gameName, tagLine) ==
    [gameName |-> gameName, tagLine |-> tagLine, urls |-> <<>>, sent |-> <<>>,
     account |-> NULL, status |-> 0]

\* a RiotApiService after constructor(), caching enabled
ResInit ==
    /\ dateNow = 0
    /\ cacheEnabled = TRUE
    /\ cache = <<>>
    /\ rateLimiters = [global |-> RateLimiter(ResQuota[1], BurstWindowMs),
                       app |-> RateLimiter(ResQuota[2], AppWindowMs)]
    /\ pc = [c \in Callers |-> "idle"]
    /\ req = [c \in Callers |-> NoReq]
    /\ wake = [c \in Callers |-> 0]
    /\ out = [c \in Callers |-> NoOut]
    /\ calls = 0
    /\ issued = <<>>
    /\ admits = [global |-> <<>>, app |-> <<>>]
    /\ admitted = [c \in Callers |-> {}]
    /\ entry = [c \in Callers |-> NoEntry]
    /\ issuedAt = [c \in Callers |-> Never]
    /\ rl = RateLimiter(1, 1)
    /\ rlNow = 0
    /\ rlLast = [op |-> "new", now |-> 0, before |-> <<>>, after |-> <<>>, ret |-> 0]
    /\ rlCalls = <<>>
    /\ response = NoResponse
    /\ thrown = NoThrown
    /\ cacheLog = <<>>
    /\ keyOps = NoKeyOps
    /\ builtKeys = <<>>
    /\ gwCall = NoCall
    /\ gwDone = NoCall
    /\ eq = NoEq
    /\ regionArg = NULL
    /\ regionRes = NoRegionRes
    /\ resolver = NoLookup

resFrame == <<response, thrown, cacheLog, keyOps, builtKeys, gwCall, gwDone,
              regionArg, regionRes>>

\* the resolver L as the step that is being taken leaves it: the operation o
\* was called in this step (when called), and what reached the transport
ResObserve(L, called, o) ==
    LET n == Len(L.attempts)
        a == L.attempts[n]
        url == urlOf(o)
        built == IF called /\ url.completion = "return"
                 THEN Append(a.urls, url.value) ELSE a.urls
        sent == IF pc'[GW] = "inflight" /\ pc[GW] # "inflight"
                THEN Append(a.sent, req'[GW].url) ELSE a.sent
    IN  [L EXCEPT !.attempts[n] = [a EXCEPT !.urls = built, !.sent = sent]]

\* getSummonerByRiotId(gameName, tagLine, region) up to its first
\* suspension (465): getAccountByRiotId
getSummonerByRiotId(L, gameName, tagLine) ==
    LET o == KeyOp("getAccountByRiotId", L.region, gameName, tagLine, 0, 0)
    IN  /\ fetch(ResCalls, GW, o, ConfigTtl)
        /\ resolver' = ResObserve([L EXCEPT !.step = "account",
                                          !.attempts = Append(@, Attempt(gameName, tagLine))],
                                TRUE, o)

\* the resolver ends: getSummonerByName returns or throws
ResEnd(L, kind, value) ==
    /\ resolver' = [L EXCEPT !.step = "end", !.result = [kind |-> kind, value |-> value]]
    /\ UNCHANGED svcVars

\* getSummonerByName({summonerName, region}) up to its first suspension
\* (478-494)
getSummonerByName(summonerName, region) ==
    LET L == [NoLookup EXCEPT !.op = "getSummonerByName", !.summonerName = summonerName,
                              !.region = region]
        parts == split(summonerName, "#")
        defaultTagLines == getDefaultTagLinesForRegion(region)
    IN  /\ resolver.step = "none"
        /\ pc[GW] \in Done
        /\ IF includes(summonerName, "#")
           THEN getSummonerByRiotId(L, trim(parts[1]), trim(parts[2]))
           ELSE IF defaultTagLines.completion = "throw"
                THEN ResEnd([L EXCEPT !.explicit = FALSE, !.consulted = TRUE],
                            "error", defaultTagLines.message)
                ELSE getSummonerByRiotId(
                         [L EXCEPT !.explicit = FALSE, !.consulted = TRUE,
                                   !.defaultTagLines = defaultTagLines.value, !.i = 1],
                         summonerName, defaultTagLines.value[1])
        /\ UNCHANGED <<resFrame, rlVars>>

\* getSummonerByRiotId(gameName, tagLine, region) called directly
ResGetSummonerByRiotId(gameName, tagLine, region) ==
    /\ resolver.step = "none"
    /\ pc[GW] \in Done
    /\ getSummonerByRiotId([NoLookup EXCEPT !.op = "getSummonerByRiotId", !.region = region],
                           gameName, tagLine)
    /\ UNCHANGED <<resFrame, rlVars>>

\* one of the single-call fetch methods called directly
ResFetch(o) ==
    /\ resolver.step = "none"
    /\ pc[GW] \in Done
    /\ fetch(ResCalls, GW, o, ConfigTtl)
    /\ resolver' = ResObserve([NoLookup EXCEPT !.op = o.kind, !.region = o.region,
                                             !.step = "last",
                                             !.attempts = <<Attempt("", "")>>], TRUE, o)
    /\ UNCHANGED <<resFrame, rlVars>>

\* ResAccountReturned with the profile looked up by gameName, as the
\* deprecated by-name endpoint did
ResAccountReturnedLooksUpName ==
    LET n == Len(resolver.attempts)
        account == out[GW].value
        o == KeyOp("getSummonerByPuuid", resolver.region, resolver.attempts[n].gameName,
                   "", 0, 0)
    IN  /\ resolver.step = "account"
        /\ pc[GW] = "returned"
        /\ fetch(ResCalls, GW, o, ConfigTtl)
        /\ resolver' = ResObserve([resolver EXCEPT !.step = "last",
                                               !.attempts[n].account = account], TRUE, o)
        /\ UNCHANGED <<resFrame, rlVars>>

\* getAccountByRiotId returned the account (465): getSummonerByPuuid with
\* its puuid (468)
ResAccountReturned ==
    LET n == Len(resolver.attempts)
        account == out[GW].value
        o == KeyOp("getSummonerByPuuid", resolver.region, account, "", 0, 0)
    IN  /\ resolver.step = "account"
        /\ pc[GW] = "returned"
        /\ fetch(ResCalls, GW, o, ConfigTtl)
        /\ resolver' = ResObserve([resolver EXCEPT !.step = "last",
                                               !.attempts[n].account = account], TRUE, o)
        /\ UNCHANGED <<resFrame, rlVars>>

\* the last makeApiCall of the method returned: the method returns its value
ResReturned ==
    /\ resolver.step = "last"
    /\ pc[GW] = "returned"
    /\ ResEnd(resolver, "value", out[GW].value)
    /\ UNCHANGED <<resFrame, rlVars>>

\* ResFailed with the loop of 492-504 also around the call for a handle that
\* has its own tagLine
ResFailedAlwaysFallsBack ==
    LET error == out[GW].value
    IN  /\ resolver.step \in {"account", "last"}
        /\ pc[GW] = "failed"
        /\ IF ~includes(error, "Not Found")
           THEN ResEnd(resolver, "error", error)
           ELSE IF resolver.i < Len(resolver.defaultTagLines)
                THEN getSummonerByRiotId([resolver EXCEPT !.i = @ + 1], resolver.summonerName,
                                         resolver.defaultTagLines[resolver.i + 1])
                ELSE ResEnd(resolver, "error", notFoundMessage(resolver.summonerName))
        /\ UNCHANGED <<resFrame, rlVars>>

\* ResFailed giving up at the first 'Not Found' of the loop
ResFailedGivesUp ==
    LET error == out[GW].value
    IN  /\ resolver.step \in {"account", "last"}
        /\ pc[GW] = "failed"
        /\ IF resolver.explicit \/ ~includes(error, "Not Found")
           THEN ResEnd(resolver, "error", error)
           ELSE ResEnd(resolver, "error", notFoundMessage(resolver.summonerName))
        /\ UNCHANGED <<resFrame, rlVars>>

\* the awaited call threw: the Error propagates, or, in the loop over the
\* default tagLines (492-504), a message with 'Not Found' in it moves on to
\* the next tagLine, and to the Error of 504 after the last one
ResFailed ==
    LET error == out[GW].value
    IN  /\ resolver.step \in {"account", "last"}
        /\ pc[GW] = "failed"
        /\ IF resolver.explicit \/ ~includes(error, "Not Found")
           THEN ResEnd(resolver, "error", error)
           ELSE IF resolver.i < Len(resolver.defaultTagLines)
                THEN getSummonerByRiotId([resolver EXCEPT !.i = @ + 1], resolver.summonerName,
                                         resolver.defaultTagLines[resolver.i + 1])
                ELSE ResEnd(resolver, "error", notFoundMessage(resolver.summonerName))
        /\ UNCHANGED <<resFrame, rlVars>>

ResWakeGlobal ==
    /\ WakeGlobal(GW)
    /\ resolver' = ResObserve(resolver, FALSE, NoKeyOp)
    /\ UNCHANGED resFrame

ResRespondOk(data) ==
    /\ data \in (IF resolver.step = "account" THEN ResAccounts ELSE ResSummoners)
    /\ RespondOk(GW, data)
    /\ UNCHANGED <<resolver, resFrame>>

ResRespondError(resp) ==
    /\ RespondError(GW, resp)
    /\ resolver' = [resolver EXCEPT !.attempts[Len(resolver.attempts)].status = resp.status]
    /\ UNCHANGED resFrame

ResWake429 ==
    /\ Wake429(GW)
    /\ UNCHANGED <<resolver, resFrame>>

\* the clock moves while the caller is suspended or between two calls; a
\* call that has completed resumes its caller first
ResTick ==
    /\ ~(resolver.step \in {"account", "last"} /\ pc[GW] \in Done)
    /\ TickUpTo(ResHorizon)
    /\ UNCHANGED <<resolver, resFrame>>

ResNext ==
    \/ \E summonerName \in ResHandles, region \in ResRegions :
          getSummonerByName(summonerName, region) /\ UNCHANGED eq
    \/ \E region \in ResRegions :
          ResGetSummonerByRiotId("bob", "NA1", region) /\ UNCHANGED eq
    \/ \E o \in ResOperations : ResFetch(o) /\ UNCHANGED eq
    \/ ResAccountReturned /\ UNCHANGED eq
    \/ ResReturned /\ UNCHANGED eq
    \/ ResFailed /\ UNCHANGED eq
    \/ ResWakeGlobal /\ UNCHANGED eq
    \/ \E data \in ResAccounts \cup ResSummoners : ResRespondOk(data) /\ UNCHANGED eq
    \/ \E resp \in ResResponses : ResRespondError(resp) /\ UNCHANGED eq
    \/ ResWake429 /\ UNCHANGED eq
    \/ ResTick /\ UNCHANGED eq

SpecRes == ResInit /\ [][ResNext]_vars

\* the handles and regions of the call that is followed to its end: a bare
\* name and one with its tagLine, a region of three default tagLines and a
\* name that is no region
ResLiveHandles == {"bob", "bob#KR1"}

ResLiveRegions == {"kr", "xx"}

\* the responses that are not ok, one of them of a status handleApiError has
\* no case for (default, 425), its message supplied by the server
ResLiveResponses ==
    {Response(404, "Not Found", NULL, UnparseableBody),
     Response(503, "Service Unavailable", NULL, UnparseableBody),
     Response(429, "Too Many Requests", NULL, UnparseableBody),
     Response(504, "Gateway Timeout", NULL, StatusBody("Upstream Not Found"))}

\* the clock moves while the call is suspended; the timer of a sleeping
\* caller runs until it is due, however late the sleep began
ResLiveTick ==
    /\ resolver.step \in {"account", "last"}
    /\ pc[GW] \notin Done
    /\ TickUpTo(IF pc[GW] \in Sleeping /\ wake[GW] > ResHorizon THEN wake[GW] ELSE ResHorizon)
    /\ UNCHANGED <<resolver, resFrame>>

\* one call of getSummonerByName on a new service
ResLiveNext ==
    \/ \E summonerName \in ResLiveHandles, region \in ResLiveRegions :
          getSummonerByName(summonerName, region) /\ UNCHANGED eq
    \/ ResAccountReturned /\ UNCHANGED eq
    \/ ResReturned /\ UNCHANGED eq
    \/ ResFailed /\ UNCHANGED eq
    \/ ResWakeGlobal /\ UNCHANGED eq
    \/ \E data \in ResAccounts \cup ResSummoners : ResRespondOk(data) /\ UNCHANGED eq
    \/ \E resp \in ResLiveResponses : ResRespondError(resp) /\ UNCHANGED eq
    \/ ResWake429 /\ UNCHANGED eq
    \/ ResLiveTick /\ UNCHANGED eq

\* every transport call eventually returns (346), a timer that was set
\* fires (setTimeout), and a promise that has settled resumes its awaiter
ResLiveFairness ==
    /\ WF_vars(/\ \/ \E data \in ResAccounts \cup ResSummoners : ResRespondOk(data)
                   \/ \E resp \in ResLiveResponses : ResRespondError(resp)
                /\ UNCHANGED eq)
    /\ WF_vars(ResLiveTick /\ UNCHANGED eq)
    /\ WF_vars(ResWakeGlobal /\ UNCHANGED eq)
    /\ WF_vars(ResWake429 /\ UNCHANGED eq)
    /\ WF_vars(ResAccountReturned /\ UNCHANGED eq)
    /\ WF_vars(ResReturned /\ UNCHANGED eq)
    /\ WF_vars(ResFailed /\ UNCHANGED eq)

SpecResLive == ResInit /\ [][ResLiveNext]_vars /\ ResLiveFairness

\* ----------------------------------------------------- resolver properties
\* the urls the observed call has handed to the transport, attempt by attempt
ResSent == [n \in DOMAIN resolver.attempts |-> resolver.attempts[n].sent]

\* the Error the observed call is failing with: the one it has thrown, or
\* the one of the awaited makeApiCall that is about to reach it
ResError ==
    IF resolver.step = "end" /\ resolver.result.kind = "error" THEN resolver.result.value
    ELSE IF resolver.step \in {"account", "last"} /\ pc[GW] = "failed" THEN out[GW].value
    ELSE NULL

\* C22: a public fetch method called with a region that is not a code of
\* the directory fails with the "Invalid region" Error before anything is
\* handed to the transport, and leaves the cache and the windows of both
\* rate limiters as they were (empty, on the service just constructed).
C22_InvalidRegionFailsEarly ==
    (resolver.op # "none" /\ ~hasOwnProperty(REGIONS, toLowerCase(resolver.region))) =>
        /\ \A n \in DOMAIN ResSent : ResSent[n] = <<>>
        /\ issued = <<>>
        /\ pc[GW] \in {"idle", "failed"}
        /\ StartsWith(ResError, "Invalid region: " \o resolver.region)
        /\ cache = <<>>
        /\ rateLimiters.global.requests = <<>>
        /\ rateLimiters.app.requests = <<>>

\* a handle with the separator whose format is invalid: more than one '#',
\* or nothing but white space before or after it
InvalidFormat(summonerName) ==
    LET parts == split(summonerName, "#")
    IN  /\ includes(summonerName, "#")
        /\ \/ Len(parts) # 2
           \/ trim(parts[1]) = ""
           \/ trim(parts[2]) = ""

\* C23: getSummonerByName rejects a handle of invalid format (an empty
\* gameName or tagLine around '#', or more than one '#') with an Error
\* before anything is handed to the transport.
C23_InvalidFormatRejected ==
    (/\ resolver.op = "getSummonerByName"
     /\ InvalidFormat(resolver.summonerName)
     /\ hasOwnProperty(REGIONS, toLowerCase(resolver.region))) =>
        /\ \A n \in DOMAIN ResSent : ResSent[n] = <<>>
        /\ issued = <<>>
        /\ resolver.step = "end"
        /\ resolver.result.kind = "error"

\* the awaited makeApiCall has completed and getSummonerByName has not yet
\* been resumed
ResPending == resolver.step \in {"account", "last"} /\ pc[GW] \in {"returned", "failed"}

\* a call of getSummonerByName for a handle with '#' has made one call of
\* getSummonerByRiotId, with the two trimmed parts of the split, has handed
\* at most two urls to the transport, and has not asked for default tagLines
ExplicitChainOnce ==
    (resolver.op = "getSummonerByName" /\ includes(resolver.summonerName, "#")) =>
        LET parts == split(resolver.summonerName, "#")
            a == resolver.attempts[1]
        IN  /\ Len(resolver.attempts) = 1
            /\ a.gameName = trim(parts[1])
            /\ a.tagLine = trim(parts[2])
            /\ Len(a.sent) <= 2
            /\ Len(issued) = Len(a.sent)
            /\ ~resolver.consulted
            /\ resolver.defaultTagLines = <<>>
            /\ resolver.explicit

\* the step that resumes getSummonerByName for a handle with '#' after a
\* failed call ends it with the very Error of that call, whatever its kind
ExplicitFailurePropagates ==
    (/\ resolver.op = "getSummonerByName"
        /\ includes(resolver.summonerName, "#")
        /\ ResPending
        /\ pc[GW] = "failed") =>
          /\ resolver'.step = "end"
          /\ resolver'.result = [kind |-> "error", value |-> out[GW].value]
          /\ Len(resolver'.attempts) = 1

\* C24: for a handle with '#', getSummonerByName runs getSummonerByRiotId
\* exactly once with the split (gameName, tagLine): at most two urls reach
\* the transport, the default tagLines are never consulted, and a failure of
\* the chain, 'Not Found' or any other, reaches the caller unchanged.
C24_ExplicitTagRunsChainOnce ==
    []ExplicitChainOnce /\ [][ExplicitFailurePropagates]_vars

C24_Witness ==
    /\ resolver.op = "getSummonerByName"
    /\ resolver.summonerName = "bob #NA1"
    /\ resolver.region = "na1"
    /\ resolver.step = "end"
    /\ resolver.result.kind = "error"
    /\ StartsWith(resolver.result.value, "Not Found")
    /\ Len(resolver.attempts[1].sent) = 2

\* seq is s without some of its elements, order kept: for at most two urls
IsSubSeqOfTwo(seq, s) ==
    \/ seq = s
    \/ seq = <<>>
    \/ Len(s) = 2 /\ (seq = <<s[1]>> \/ seq = <<s[2]>>)

\* every call of getSummonerByRiotId has built the account url first, routed
\* by continent, and the profile url second, routed by platform and made of
\* the puuid of the account the first call returned; no profile url exists
\* while no account has been returned
ChainInOrder ==
    resolver.op \in {"getSummonerByName", "getSummonerByRiotId"} =>
        \A n \in DOMAIN resolver.attempts :
            LET a == resolver.attempts[n]
                valid == hasOwnProperty(REGIONS, toLowerCase(resolver.region))
                config == REGIONS[toLowerCase(resolver.region)]
            IN  /\ Len(a.urls) <= 2
                /\ IsSubSeqOfTwo(a.sent, a.urls)
                /\ a.account = NULL => Len(a.urls) <= 1
                /\ Len(a.urls) = 2 => a.account \in ResAccounts
                /\ (valid /\ Len(a.urls) >= 1) =>
                       a.urls[1] = "https://" \o config.continent
                                       \o ".api.riotgames.com/riot/account/v1/accounts/by-riot-id/"
                                       \o encodeURIComponent(a.gameName) \o "/"
                                       \o encodeURIComponent(a.tagLine)
                /\ (valid /\ Len(a.urls) = 2) =>
                       a.urls[2] = "https://" \o config.platform
                                       \o ".api.riotgames.com/lol/summoner/v4/summoners/by-puuid/"
                                       \o a.account

\* the step that resumes getSummonerByRiotId after getAccountByRiotId failed
\* builds no profile url for that call, and the Error leaves
\* getSummonerByRiotId as it is: a direct call ends with it
IdentityFailurePropagates ==
    (resolver.step = "account" /\ pc[GW] = "failed") =>
        LET n == Len(resolver.attempts)
        IN  /\ resolver'.attempts[n] = resolver.attempts[n]
            /\ resolver.attempts[n].account = NULL
            /\ resolver.op = "getSummonerByRiotId" =>
                   /\ resolver'.step = "end"
                   /\ resolver'.result = [kind |-> "error", value |-> out[GW].value]

\* C25: getSummonerByRiotId makes the continental identity lookup first and
\* the platform profile lookup second, with the puuid the first returned;
\* the profile lookup never starts before the identity lookup has succeeded,
\* and when the identity lookup fails no profile lookup is made and that
\* failure propagates.
C25_IdentityThenProfile ==
    []ChainInOrder /\ [][IdentityFailurePropagates]_vars

C25_Witness ==
    /\ resolver.op = "getSummonerByRiotId"
    /\ resolver.region = "kr"
    /\ resolver.step = "end"
    /\ resolver.result = [kind |-> "value", value |-> "summoner"]
    /\ resolver.attempts[1].account = "p1"
    /\ resolver.attempts[1].sent =
           <<"https://asia.api.riotgames.com/riot/account/v1/accounts/by-riot-id/bob/NA1",
             "https://kr.api.riotgames.com/lol/summoner/v4/summoners/by-puuid/p1">>

C25_WitnessIdentityFails ==
    /\ resolver.op = "getSummonerByRiotId"
    /\ resolver.region = "kr"
    /\ resolver.step = "end"
    /\ resolver.result.kind = "error"
    /\ Len(resolver.attempts[1].sent) = 1
    /\ resolver.attempts[1].status = 503

\* the candidate tagLines of the table, by continent
CandidateTagLines(continent) ==
    CASE continent = "americas" -> <<"NA1", "BR1", "LAN", "LAS", "0000">>
      [] continent = "europe" -> <<"EUW", "EUNE", "TR1", "RU", "0000">>
      [] continent = "asia" -> <<"KR1", "JP1", "0000">>
      [] continent = "sea" -> <<"OCE", "PH2", "SG2", "TH2", "TW2", "VN2", "0000">>

\* getSummonerByName was called with a handle without '#' and a region of
\* the directory
BareLookup ==
    /\ resolver.op = "getSummonerByName"
    /\ ~includes(resolver.summonerName, "#")
    /\ hasOwnProperty(REGIONS, toLowerCase(resolver.region))

\* C26: for a handle without '#', getSummonerByName tries the candidate
\* tagLines in the order of the table of the region's continent, starts
\* candidate i+1 only after candidate i ended in NotFound (a 404), and ends
\* with the profile of the first candidate whose chain succeeds.
C26_CandidatesInOrder ==
    BareLookup =>
        LET table == CandidateTagLines(REGIONS[toLowerCase(resolver.region)].continent)
            k == Len(resolver.attempts)
        IN  /\ k \in 1..Len(table)
            /\ \A n \in 1..k :
                   /\ resolver.attempts[n].gameName = resolver.summonerName
                   /\ resolver.attempts[n].tagLine = table[n]
            /\ \A n \in 1..(k - 1) : resolver.attempts[n].status = 404
            /\ resolver.result.kind = "value" =>
                   /\ resolver.attempts[k].status = 0
                   /\ resolver.attempts[k].account # NULL

\* C27: in the loop over the candidates, a failed chain whose response was
\* not a 404, whatever the text of its message, ends getSummonerByName at
\* once with that very Error: no later candidate is tried.
C27_OtherFailureEndsResolver ==
    [][(/\ BareLookup
        /\ ResPending
        /\ pc[GW] = "failed"
        /\ resolver.attempts[Len(resolver.attempts)].status # 404) =>
          /\ resolver'.step = "end"
          /\ resolver'.result = [kind |-> "error", value |-> out[GW].value]
          /\ resolver'.attempts = resolver.attempts]_vars

\* the Error of line 504 for the handle
IdentityNotResolved(summonerName) ==
    "Summoner \"" \o summonerName \o "\" not found. Please use full Riot ID format: "
        \o "gameName#tagLine (e.g., \"Faker#KR1\")"

\* C28: when every candidate tagLine of the region's list has ended in
\* NotFound, getSummonerByName throws the Error that names the handle and
\* suggests the form gameName#tagLine; that Error is thrown only after every
\* candidate of the list has been tried and has failed.
C28_AllNotFoundNamesHandle ==
    BareLookup =>
        LET table == CandidateTagLines(REGIONS[toLowerCase(resolver.region)].continent)
            k == Len(resolver.attempts)
            dedicated == [kind |-> "error",
                          value |-> IdentityNotResolved(resolver.summonerName)]
        IN  /\ (/\ resolver.step = "end"
                /\ k = Len(table)
                /\ \A n \in 1..k : resolver.attempts[n].status = 404) =>
                   resolver.result = dedicated
            /\ (resolver.result.kind = "error"
                    /\ StartsWith(resolver.result.value, "Summoner ")) =>
                   /\ resolver.result = dedicated
                   /\ resolver.step = "end"
                   /\ k = Len(table)
                   /\ \A n \in 1..k :
                          /\ resolver.attempts[n].tagLine = table[n]
                          /\ resolver.attempts[n].sent # <<>>
                          /\ resolver.attempts[n].status # 0

C28_Witness ==
    /\ BareLookup
    /\ resolver.summonerName = "bob"
    /\ resolver.region = "na1"
    /\ resolver.step = "end"
    /\ resolver.result = [kind |-> "error", value |-> IdentityNotResolved("bob")]
    /\ Len(resolver.attempts) = 5
    /\ \A n \in 1..5 : resolver.attempts[n].status = 404

\* getSummonerByName has been called and has not returned or thrown yet
NameLookupRunning == resolver.op = "getSummonerByName" /\ resolver.step # "end"

\* getSummonerByName has ended: with the profile, with the Error of a call
\* or of getRegionConfig, or with the Error of 504
NameLookupEnded ==
    /\ resolver.op = "getSummonerByName"
    /\ resolver.step = "end"
    /\ resolver.result.kind \in {"value", "error"}

\* the candidate tagLines of the call: the handle's own, or the defaults
CandidatesOfCall ==
    IF resolver.explicit
    THEN IF resolver.attempts = <<>> THEN <<>> ELSE <<resolver.attempts[1].tagLine>>
    ELSE resolver.defaultTagLines

\* one chain attempt at most for every candidate, none attempted twice, and
\* two transport calls at most in each attempt
BoundedAttempts ==
    resolver.op = "getSummonerByName" =>
        /\ Len(resolver.attempts) <= Len(CandidatesOfCall)
        /\ \A n \in DOMAIN resolver.attempts :
              /\ resolver.attempts[n].tagLine = CandidatesOfCall[n]
              /\ Len(resolver.attempts[n].sent) <= 2
        /\ \A m, n \in DOMAIN resolver.attempts :
              m # n => resolver.attempts[m].tagLine # resolver.attempts[n].tagLine

\* a response of the 5xx class has arrived in the call
ServerErrorSeen ==
    /\ resolver.op = "getSummonerByName"
    /\ \E n \in DOMAIN resolver.attempts : resolver.attempts[n].status >= 500

\* once a server error has arrived, no further attempt is started and
\* nothing more is handed to the transport
NoRetryAfterServerError ==
    ServerErrorSeen =>
        /\ Len(resolver'.attempts) = Len(resolver.attempts)
        /\ [n \in DOMAIN resolver'.attempts |-> resolver'.attempts[n].sent] = ResSent

\* C31: provided every transport call eventually returns, every call of
\* getSummonerByName eventually ends, with the profile or with a propagated
\* or dedicated failure; it makes at most one chain attempt for each
\* candidate tagLine, of at most two transport calls, attempts no candidate
\* twice, and makes no further attempt after a server error.
C31_TerminatesWithoutRetry ==
    /\ NameLookupRunning ~> NameLookupEnded
    /\ []BoundedAttempts
    /\ [][NoRetryAfterServerError]_vars

\* a response of status 504 has arrived and the next candidate is attempted
C31_RetriedAfterServerError ==
    /\ ServerErrorSeen
    /\ resolver.attempts[1].status = 504
    /\ Len(resolver.attempts) = 2
    /\ Len(resolver.attempts[2].sent) = 1

\* as NoRetryAfterServerError, for the statuses handleApiError has a case
\* for (419-424)
NoRetryAfterListedServerError ==
    (ServerErrorSeen /\ \E n \in DOMAIN resolver.attempts :
                            resolver.attempts[n].status \in {500, 502, 503}) =>
        /\ Len(resolver'.attempts) = Len(resolver.attempts)
        /\ [n \in DOMAIN resolver'.attempts |-> resolver'.attempts[n].sent] = ResSent

\* the parts of C31 that do not depend on the message of a server error
C31_TerminatesBounded ==
    /\ NameLookupRunning ~> NameLookupEnded
    /\ []BoundedAttempts
    /\ [][NoRetryAfterListedServerError]_vars

\* every candidate of asia was attempted with two transport calls, the
\* caller slept at the global limiter, and the call ended
C31_AllCandidatesTwoCalls ==
    /\ NameLookupEnded
    /\ Len(resolver.attempts) = 3
    /\ \A n \in DOMAIN resolver.attempts : Len(resolver.attempts[n].sent) = 2
    /\ dateNow > ResHorizon

\* ------------------------------------- two calls from one starting state
\* the clock goes far enough for a sleep that begins at ResHorizon to end
EqHorizon == ResHorizon + BurstWindowMs

\* the bare names, and the regions
EqNames == {"bob", "bob "}

EqRegions == {"na1"}

\* the 404 of the transport
EqNotFound == Response(404, "Not Found", NULL, UnparseableBody)

\* the first default tagLine of a region of the directory
FirstTagLine(region) == getDefaultTagLinesForRegion(region).value[1]

\* the fetches made beforehand, each at most once: they leave entries in
\* the cache and timestamps in the windows of the rate limiters
EqWarmOps ==
    {KeyOp("getAccountByRiotId", r, "bob", FirstTagLine(r), 0, 0) : r \in EqRegions}
    \cup {KeyOp("getSummonerByPuuid", "na1", "p1", "", 0, 0)}

RECURSIVE Flat(_)
\* the concatenation of a sequence of sequences
Flat(seqs) == IF seqs = <<>> THEN <<>> ELSE Head(seqs) \o Flat(Tail(seqs))

\* a RiotApiService after constructor(), caching enabled
EqInit ==
    /\ dateNow = 0
    /\ cacheEnabled = TRUE
    /\ cache = <<>>
    /\ rateLimiters = [global |-> RateLimiter(ResQuota[1], BurstWindowMs),
                       app |-> RateLimiter(ResQuota[2], AppWindowMs)]
    /\ pc = [c \in Callers |-> "idle"]
    /\ req = [c \in Callers |-> NoReq]
    /\ wake = [c \in Callers |-> 0]
    /\ out = [c \in Callers |-> NoOut]
    /\ calls = 0
    /\ issued = <<>>
    /\ admits = [global |-> <<>>, app |-> <<>>]
    /\ admitted = [c \in Callers |-> {}]
    /\ entry = [c \in Callers |-> NoEntry]
    /\ issuedAt = [c \in Callers |-> Never]
    /\ rl = RateLimiter(1, 1)
    /\ rlNow = 0
    /\ rlLast = [op |-> "new", now |-> 0, before |-> <<>>, after |-> <<>>, ret |-> 0]
    /\ rlCalls = <<>>
    /\ response = NoResponse
    /\ thrown = NoThrown
    /\ cacheLog = <<>>
    /\ keyOps = NoKeyOps
    /\ builtKeys = <<>>
    /\ gwCall = NoCall
    /\ gwDone = NoCall
    /\ regionArg = NULL
    /\ regionRes = NoRegionRes
    /\ resolver = NoLookup
    /\ eq = NoEq

\* one of the fetch methods is called before the two calls that are compared
EqWarm(o) ==
    /\ eq.phase = "warm"
    /\ o \notin eq.warmed
    /\ pc[GW] \in Done
    /\ fetch(ResCalls, GW, o, ConfigTtl)
    /\ eq' = [eq EXCEPT !.warmed = @ \cup {o}]
    /\ UNCHANGED <<resolver, resFrame, rlVars>>

\* the transport answers a fetch made beforehand with 404
EqRespondNotFound ==
    /\ eq.phase = "warm"
    /\ RespondError(GW, EqNotFound)
    /\ UNCHANGED <<resolver, eq, resFrame>>

\* the transport answers with the account or the profile asked for
EqRespondOk ==
    /\ RespondOk(GW, IF StartsWith(req[GW].cacheKey, "account:")
                     THEN "p1" ELSE "summoner")
    /\ UNCHANGED <<resolver, eq, resFrame>>

EqWakeGlobal ==
    /\ WakeGlobal(GW)
    /\ resolver' = IF resolver.attempts = <<>> THEN resolver
                   ELSE ResObserve(resolver, FALSE, NoKeyOp)
    /\ UNCHANGED <<eq, resFrame>>

\* the clock moves at will before the two calls; during them only while the
\* caller sleeps, so that both calls meet the same timing
EqTick ==
    /\ eq.phase = "warm" \/ pc[GW] \in Sleeping
    /\ TickUpTo(EqHorizon)
    /\ UNCHANGED <<resolver, eq, resFrame>>

\* the first call: getSummonerByName with the bare name n
EqBeginBare(n, region) ==
    /\ eq.phase = "warm"
    /\ getSummonerByName(n, region)
    /\ eq' = [eq EXCEPT !.phase = "bare", !.n = n, !.region = region,
                        !.start = [dateNow |-> dateNow, cache |-> cache,
                                   rateLimiters |-> rateLimiters]]

\* the first call has ended: what it did is kept, and the service is put
\* back into the state the first call started from
EqRestore ==
    /\ eq.phase = "bare"
    /\ resolver.step = "end"
    /\ eq' = [eq EXCEPT !.phase = "tagged",
                        !.first = [result |-> resolver.result,
                                   sent |-> Flat([n \in DOMAIN resolver.attempts |->
                                                     resolver.attempts[n].sent])]]
    /\ resolver' = NoLookup
    /\ dateNow' = eq.start.dateNow
    /\ cache' = eq.start.cache
    /\ rateLimiters' = eq.start.rateLimiters
    /\ pc' = [pc EXCEPT ![GW] = "idle"]
    /\ out' = [out EXCEPT ![GW] = NoOut]
    /\ UNCHANGED <<cacheEnabled, req, wake, calls, issued, admits, admitted, entry,
                   issuedAt, resFrame, rlVars>>

\* the second call: getSummonerByName with n # T, T the first default
\* tagLine of the region
EqBeginTagged ==
    /\ eq.phase = "tagged"
    /\ getSummonerByName(eq.n \o "#" \o FirstTagLine(eq.region), eq.region)
    /\ UNCHANGED eq

EqNext ==
    \/ \E o \in EqWarmOps : EqWarm(o)
    \/ EqRespondNotFound
    \/ EqRespondOk
    \/ EqWakeGlobal
    \/ EqTick
    \/ \E n \in EqNames, region \in EqRegions : EqBeginBare(n, region)
    \/ ResAccountReturned /\ UNCHANGED eq
    \/ ResReturned /\ UNCHANGED eq
    \/ EqRestore
    \/ EqBeginTagged

SpecEq == EqInit /\ [][EqNext]_vars

\* ------------------------------------------------- equivalence properties
\* C29: for a bare name n and a region whose first candidate tagLine is T,
\* when the chain for n#T succeeds, getSummonerByName(n) returns the profile
\* getSummonerByName(n#T) returns and, started from the same cache and the
\* same limiter windows, hands the same urls to the transport.
C29_BareEqualsFirstCandidate ==
    (eq.phase = "tagged" /\ resolver.step = "end" /\ resolver.result.kind = "value") =>
        /\ eq.first.result = resolver.result
        /\ eq.first.sent = Flat([n \in DOMAIN resolver.attempts |->
                                    resolver.attempts[n].sent])

\* --------------------------------------------- stand-alone region lookup
\* the strings handed in as a region: the codes of the table as written, in
\* capitals and in mixed case, and strings that are no code
RegionInputs ==
    Range(RegionCodes) \cup
    {"NA1", "EUW1", "EUNE1", "KR", "JP1", "BR1", "LA1", "LA2",
     "OC1", "TR1", "RU", "PH2", "SG2", "TH2", "TW2", "VN2"} \cup
    {"Na1", "eUw1", "Kr", "oC1", "Ru", "vN2"} \cup
    {"", " ", "na", "NA", "na2", "na1 ", " na1", "euw", "eu", "kr1", "k", "r",
     "americas", "europe", "asia", "sea", "undefined", "null",
     "constructor", "Constructor", "CONSTRUCTOR", "__proto__", "__PROTO__",
     "toString", "tostring", "valueOf", "valueof", "hasOwnProperty"}

\* getRegionConfig is about to be called with one of the strings; nothing
\* else is exercised
RegionInit ==
    /\ regionArg \in RegionInputs
    /\ regionRes = NoRegionRes
    /\ response = NoResponse
    /\ thrown = NoThrown
    /\ cacheLog = <<>>
    /\ keyOps = NoKeyOps
    /\ builtKeys = <<>>
    /\ gwCall = NoCall
    /\ gwDone = NoCall
    /\ eq = NoEq
    /\ resolver = NoLookup
    /\ rl = RateLimiter(1, 1)
    /\ rlNow = 0
    /\ rlLast = [op |-> "new", now |-> 0, before |-> <<>>, after |-> <<>>, ret |-> 0]
    /\ rlCalls = <<>>
    /\ dateNow = 0
    /\ cacheEnabled = TRUE
    /\ cache = <<>>
    /\ rateLimiters = [global |-> RateLimiter(1, BurstWindowMs),
                       app |-> RateLimiter(1, AppWindowMs)]
    /\ pc = [c \in Callers |-> "idle"]
    /\ req = [c \in Callers |-> NoReq]
    /\ wake = [c \in Callers |-> 0]
    /\ out = [c \in Callers |-> NoOut]
    /\ calls = 0
    /\ issued = <<>>
    /\ admits = [global |-> <<>>, app |-> <<>>]
    /\ admitted = [c \in Callers |-> {}]
    /\ entry = [c \in Callers |-> NoEntry]
    /\ issuedAt = [c \in Callers |-> Never]

\* this.getRegionConfig(region)
RegionGetRegionConfig ==
    /\ regionRes = NoRegionRes
    /\ regionRes' = getRegionConfig(regionArg)
    /\ UNCHANGED <<regionArg, resolver, eq, response, thrown, cacheLog, keyOps,
                   builtKeys, gwCall, gwDone, rlVars, svcVars>>

SpecRegion == RegionInit /\ [][RegionGetRegionConfig]_vars

\* ------------------------------------------------------- region properties
\* C21: for every string c, getRegionConfig(c) returns exactly when the
\* lower-cased c is a code of the REGIONS table, and then returns that
\* code's platform and continent; for every other string it throws the
\* invalid-region Error.
C21_ResolvesExactlyTheTable ==
    regionRes # NoRegionRes =>
        LET code == toLowerCase(regionArg)
        IN  IF code \in Range(RegionCodes)
            THEN /\ regionRes.completion = "return"
                 /\ regionRes.value.platform = REGIONS[code].platform
                 /\ regionRes.value.continent = REGIONS[code].continent
            ELSE /\ regionRes.completion = "throw"
                 /\ StartsWith(regionRes.message, "Invalid region: ")

\* C35: for every string c, RiotApiUtils.isValidRegion(c) is true exactly
\* when getRegionConfig(c) returns and what it returns is an entry of the
\* REGIONS table.
C35_ValidatorAgreesWithLookup ==
    regionRes # NoRegionRes =>
        (isValidRegion(regionArg) <=>
            (/\ regionRes.completion = "return"
             /\ \E code \in Range(RegionCodes) : regionRes.value = REGIONS[code]))

\* the lookup returns for a name REGIONS inherits, with no entry of the
\* table, and the validator says no
C35_Witness ==
    /\ regionArg = "constructor"
    /\ regionRes.completion = "return"
    /\ \A code \in Range(RegionCodes) : regionRes.value # REGIONS[code]
    /\ ~isValidRegion(regionArg)

C35_WitnessValid ==
    /\ regionArg = "eUw1"
    /\ regionRes.completion = "return"
    /\ regionRes.value = REGIONS["euw1"]
    /\ isValidRegion(regionArg)

C35_WitnessInvalid ==
    /\ regionArg = "na1 "
    /\ regionRes.completion = "throw"
    /\ ~isValidRegion(regionArg)

====
